---- MODULE Spec2Model ----
(***************************************************************************)
(* ParseFlow: mailbox ingestion, sender routing, AI extraction and the job *)
(* runner, modelled from the TypeScript sources.                           *)
(*                                                                         *)
(* Strings are sequences of one-character strings.  Numbers that the code  *)
(* keeps as fractions (confidences) are kept in hundredths.                *)
(***************************************************************************)
EXTENDS Integers, Sequences, FiniteSets, TLC

VARIABLES
  \* data store (data-store.ts)
  rules,            \* Rule[]: sequence of [type, pattern, active]
  emails,           \* Email[]: sequence of stored emails
  \* rule matcher called on its own
  rtEmail,          \* the email handed to checkWhitelistStatus
  rtOptimized,      \* TRUE when settings carries _whitelistMap/_blacklistMap
  rtResult,         \* its result, "none" before the call
  \* job queue (job-queue.ts)
  jobs,             \* Map<string, Job>: id -> Job, NoJob when absent
  currentJob,       \* the current-job slot: a Job snapshot or NoJob
  jobIdCounter,     \* ids handed out so far
  jpc,              \* position of processJob(job) for each id
  clock,            \* Date.now(), as a logical clock
  \* stop route and parse route flags
  shouldStop,
  shouldStopParsing,
  stopAwaiting,     \* stop requests suspended at `await addLog`
  stopTimers,       \* reset timers scheduled and not yet fired
  stopCount,        \* stop requests received so far
  \* one mailbox pass (processEmails)
  passPc,
  passSettings,     \* [optimized, whitelistMap, blacklistMap]
  mailbox,          \* the unseen messages the search returns
  messageCount,
  processedCount,
  errors,           \* message numbers recorded in errors[]
  lockHeld,         \* INBOX lock of the pass's client
  session,          \* "none" | "connected" | "loggedOut"
  passError,        \* an exception travelling to the outer catch
  passResult,       \* "none" | "returned" | "threw"
  threw,            \* numbers of the messages whose parsing threw
  classifyCalls,    \* numbers of the messages handed to classifyEmail
  routes,           \* per message taken: what the rule matcher answered
  \* attachment re-fetch (refetchEmailWithAttachments)
  rfPc,
  rfLock,           \* INBOX lock of the re-fetch's client
  rfSession,        \* "none" | "connected" | "loggedOut"
  rfError,          \* an exception travelling to the catch block
  rfResult,         \* "none" | "updated" | "original"
  \* structured extractor (parseEmailWithAI)
  exPc,
  exIn,             \* the call's inputs
  exLocals,            \* the local variables of the call
  exOut,            \* the value the call resolves to, or "raised"
  \* content classifier (classifyEmail)
  classifier,       \* [pc, email, settings, keywordResult, aiCalls, result]
  \* two replies scored by parseAIParsingResponse
  confPair,         \* [expectedType, a, b, confA, confB, done]
  \* force-parse and auto-parse routes: the calls of parseEmailWithAI
  parseCalls,       \* sequence of [route, classification]
  \* settings cache and settings file (data-store.ts, server-storage.ts)
  settingsStore,    \* [pc, cache, file, posted, previous, got, response]
  \* the passes started through each entry point
  entryPasses,      \* entry point -> [pc, passes]
  \* file archiver (saveEmailWithFiles)
  archive,          \* [pc, attachments, next, attempted, failedStep, ...]
  \* force-parse route (POST /api/emails/parse): the loop over the emails
  forceParse,       \* [pc, n, i, reads, started, finishedUnderStop, ...]
  \* data-store mutations against a file save that may fail
  storeOps,         \* [rules, emails, op, saveFailed, reported, before]
  \* concurrent getEmails/addEmail calls around the first load
  lazyLoad          \* [arrays, emails, emailsLoaded, file, calls]

dataVars  == <<rules, emails>>
routeVars == <<rtEmail, rtOptimized, rtResult>>
jobVars   == <<jobs, currentJob, jobIdCounter, jpc, clock>>
stopVars  == <<shouldStop, shouldStopParsing, stopAwaiting, stopTimers, stopCount>>
passVars  == <<passPc, passSettings, mailbox, messageCount, processedCount, errors,
               lockHeld, session, passError, passResult, threw, classifyCalls, routes>>
rfVars    == <<rfPc, rfLock, rfSession, rfError, rfResult>>
exVars    == <<exPc, exIn, exLocals, exOut>>
reqVars   == <<forceParse, storeOps, lazyLoad>>
auxVars   == <<classifier, confPair, parseCalls, settingsStore, entryPasses, archive, reqVars>>
vars      == <<dataVars, routeVars, jobVars, stopVars, passVars, rfVars, exVars, auxVars>>

-----------------------------------------------------------------------------
(* Bounds *)

MaxRules == 2
MaxMsgs  == 2
MaxJobs  == 3
MaxStops == 2
MaxHits  == 5
MaxSettings == 3
MaxPasses == 2
MaxParses == 2
MaxAttachments == 4
MaxNewJobs == 2
MaxRunJobs == 2
MaxForceEmails == 3
MaxStoreIds == 2
MaxCalls == 2

-----------------------------------------------------------------------------
(* Strings *)

\* String.prototype.toLowerCase, one character
LowerChar(c) ==
  IF c = "A" THEN "a" ELSE IF c = "B" THEN "b" ELSE c

\* String.prototype.toLowerCase
toLowerCase(s) == [i \in 1..Len(s) |-> LowerChar(s[i])]

\* String.prototype.includes: p occurs in s as a contiguous substring
includes(s, p) ==
  \E i \in 0..(Len(s) - Len(p)) : SubSeq(s, i + 1, i + Len(p)) = p

\* the marker isWeTransferEmail looks for ("wetransfer.com")
WeTransferMarker == <<"w">>

\* sender addresses of the messages in the mailbox and of the emails routed
Senders == { <<"a", "b">>, <<"b">>, <<"w", "b">>, <<"A", "b">>, <<"c">> }

\* rule patterns
Patterns == { <<"a", "b">>, <<"b">>, <<"A", "B">> }

Rules == [type : {"whitelist", "blacklist"}, pattern : Patterns, active : BOOLEAN]

SeqsUpTo(S, n) == UNION { [1..k -> S] : k \in 0..n }

NoSettingsMaps == [optimized |-> FALSE, whitelistMap |-> {}, blacklistMap |-> {}]

-----------------------------------------------------------------------------
(* Rule matcher: classification-service.ts *)

\* extractEmailAddress / extractEmailFromFrom for a bare address: lower-cased
extractEmailAddress(fromField) == toLowerCase(fromField)

\* isWeTransferEmail(email)
isWeTransferEmail(email) ==
  \/ includes(email.senderEmail, WeTransferMarker)
  \/ includes(toLowerCase(email.from), WeTransferMarker)

\* the rule pre-loading of processJob and of the process-optimized route
PreloadRules(rs) ==
  [optimized    |-> TRUE,
   whitelistMap |-> { toLowerCase(rs[i].pattern) :
                        i \in { k \in 1..Len(rs) : rs[k].type = "whitelist" /\ rs[k].active } },
   blacklistMap |-> { toLowerCase(rs[i].pattern) :
                        i \in { k \in 1..Len(rs) : rs[k].type = "blacklist" /\ rs[k].active } }]

Min(S) == CHOOSE x \in S : \A y \in S : x <= y

RuleResult(rule) == IF rule.type = "whitelist" THEN "inbox" ELSE "skip"

\* the two linear scans over getRules(): exact matches first, then containment
ScanRules(senderEmail, rs) ==
  LET exact   == { i \in 1..Len(rs) : toLowerCase(rs[i].pattern) = senderEmail }
      partial == { i \in 1..Len(rs) :
                     \/ includes(senderEmail, toLowerCase(rs[i].pattern))
                     \/ includes(toLowerCase(rs[i].pattern), senderEmail) }
  IN  IF exact # {} THEN RuleResult(rs[Min(exact)])
      ELSE IF partial # {} THEN RuleResult(rs[Min(partial)])
      ELSE "unsorted"

\* the set lookups on _blacklistMap / _whitelistMap
LookupMaps(senderEmail, settings) ==
  IF senderEmail \in settings.blacklistMap THEN "skip"
  ELSE IF senderEmail \in settings.whitelistMap THEN "inbox"
  ELSE "unsorted"

\* checkWhitelistStatus(email, settings); rs is what getRules() returns
checkWhitelistStatus(email, settings, rs) ==
  LET senderEmail == toLowerCase(email.senderEmail)
  IN  IF settings.optimized
        THEN LookupMaps(senderEmail, settings)
        ELSE ScanRules(senderEmail, rs)

-----------------------------------------------------------------------------
(* Job queue: job-queue.ts and the jobs route *)

\* cleanupJobs keeps this many completed/failed jobs
KeepJobs == 10

JobIds == 1..MaxJobs

JobTypes == {"email-processing", "email-processing-optimized"}

\* the type the submissions below ask for: the two types differ only inside
\* the pipeline call, which the job queue sees as a call that returns or throws
RequestTypes == {"email-processing"}

\* no entry in the jobs map / null in the current-job slot
NoJob ==
  [id |-> 0, type |-> "none", status |-> "absent", progress |-> 0,
   startTime |-> 0, currentOperation |-> "none", totalEmails |-> -1,
   processedEmails |-> -1, error |-> "none", result |-> "none"]

\* the values the pipeline hands to progressCallback(operation, progress, total, processed)
ProgressCalls == { <<"Processing email", 60, 2, 1>> }

\* the error texts processEmails throws
PipelineErrors == {"Authentication failed"}

\* createJob(type, settings): the Job it builds
NewJob(id, type) ==
  [NoJob EXCEPT !.id = id, !.type = type, !.status = "pending", !.progress = 0]

\* updateJob(id, updates) on a jobs map and a slot: the pair it leaves
updateJob(js, cur, id, updates) ==
  IF js[id].status = "absent"
    THEN <<js, cur>>
    ELSE LET updatedJob == updates @@ js[id]
         IN  <<[js EXCEPT ![id] = updatedJob],
               IF cur.id = id THEN updatedJob ELSE cur>>

\* Math.min(100, Math.max(0, progress))
ClampProgress(p) == IF p < 0 THEN 0 ELSE IF p > 100 THEN 100 ELSE p

IsFinished(job) == job.status \in {"completed", "failed"}

\* a faulty variant of cleanupJobs: the status filter is missing, the jobs
\* after the first KeepJobs of the whole table are deleted
cleanupJobs_NoStatusFilter(js) ==
  LET allJobs      == { j \in DOMAIN js : js[j].status # "absent" }
      Before(k, j) == \/ js[k].startTime > js[j].startTime
                      \/ (js[k].startTime = js[j].startTime /\ k < j)
      Rank(j)      == Cardinality({ k \in allJobs : Before(k, j) })
  IN  IF Cardinality(allJobs) > KeepJobs
        THEN [j \in DOMAIN js |->
                IF j \in allJobs /\ Rank(j) >= KeepJobs THEN NoJob ELSE js[j]]
        ELSE js

\* cleanupJobs(): getAllJobs() sorts by startTime, newest first (stable, so
\* equal times keep insertion order); the completed/failed jobs after the
\* first KeepJobs are deleted
cleanupJobs(js) ==
  LET completedJobs == { j \in DOMAIN js : IsFinished(js[j]) }
      Before(k, j)  == \/ js[k].startTime > js[j].startTime
                       \/ (js[k].startTime = js[j].startTime /\ k < j)
      Rank(j)       == Cardinality({ k \in completedJobs : Before(k, j) })
  IN  IF Cardinality(completedJobs) > KeepJobs
        THEN [j \in DOMAIN js |->
                IF j \in completedJobs /\ Rank(j) >= KeepJobs THEN NoJob ELSE js[j]]
        ELSE js

\* the check both the jobs route and processJob make before starting a job
SlotRunning(cur) == cur.id # 0 /\ cur.status = "running"

\* POST /api/jobs.  Rejected with 409 while the slot holds a running job.
\* Otherwise createJob, then processJob(job) up to its first await (the slot
\* now holds the still-pending job), then cleanupJobs().
PostJobs(type) ==
  /\ type \in JobTypes
  /\ jobIdCounter + 1 \in DOMAIN jobs
  /\ IF SlotRunning(currentJob)
       THEN UNCHANGED jobVars
       ELSE LET id  == jobIdCounter + 1
                job == NewJob(id, type)
            IN  /\ jobIdCounter' = id
                /\ currentJob' = job
                /\ jobs' = cleanupJobs([jobs EXCEPT ![id] = job])
                /\ jpc' = [jpc EXCEPT ![id] = "start"]
                /\ UNCHANGED clock
  /\ UNCHANGED <<dataVars, routeVars, stopVars, passVars, rfVars, exVars, auxVars>>

\* a faulty variant: the running-job test is made after the first await, and
\* a call that finds another job running is rejected with its job untouched
JobStart_RejectedWhenBusy(j) ==
  /\ jpc[j] = "start"
  /\ IF \E k \in DOMAIN jobs : k # j /\ jobs[k].status = "running"
       THEN /\ jpc' = [jpc EXCEPT ![j] = "done"]
            /\ UNCHANGED <<jobs, currentJob, clock>>
       ELSE /\ LET r == updateJob(jobs, currentJob, j,
                             [status |-> "running", startTime |-> clock, progress |-> 0])
               IN  jobs' = r[1] /\ currentJob' = r[2]
            /\ clock' = clock + 1
            /\ jpc' = [jpc EXCEPT ![j] = "pipeline"]
  /\ UNCHANGED <<jobIdCounter, dataVars, routeVars, stopVars, passVars, rfVars, exVars, auxVars>>

\* processJob after `await addLog('Starting background job')`:
\* updateJob(running), then the pipeline is started
JobStart(j) ==
  /\ jpc[j] = "start"
  /\ LET r == updateJob(jobs, currentJob, j,
                        [status |-> "running", startTime |-> clock, progress |-> 0])
     IN  jobs' = r[1] /\ currentJob' = r[2]
  /\ clock' = clock + 1
  /\ jpc' = [jpc EXCEPT ![j] = "pipeline"]
  /\ UNCHANGED <<jobIdCounter, dataVars, routeVars, stopVars, passVars, rfVars, exVars, auxVars>>

\* progressCallback, called by the pipeline while it runs
JobProgress(j, call) ==
  /\ jpc[j] = "pipeline"
  /\ LET r == updateJob(jobs, currentJob, j,
                        [currentOperation |-> call[1],
                         progress         |-> ClampProgress(call[2]),
                         totalEmails      |-> call[3],
                         processedEmails  |-> call[4]])
     IN  jobs' = r[1] /\ currentJob' = r[2]
  /\ UNCHANGED <<jobIdCounter, jpc, clock, dataVars, routeVars, stopVars, passVars, rfVars, exVars, auxVars>>

\* processEmails returned: updateJob(completed), then `await addLog`
JobPipelineReturn(j) ==
  /\ jpc[j] = "pipeline"
  /\ LET r == updateJob(jobs, currentJob, j,
                        [status |-> "completed", progress |-> 100, result |-> "result"])
     IN  jobs' = r[1] /\ currentJob' = r[2]
  /\ jpc' = [jpc EXCEPT ![j] = "finishing"]
  /\ UNCHANGED <<jobIdCounter, clock, dataVars, routeVars, stopVars, passVars, rfVars, exVars, auxVars>>

\* a faulty variant: the catch block marks the job failed and drops the error text
JobPipelineThrow_NoErrorText(j, errorMessage) ==
  /\ jpc[j] = "pipeline"
  /\ LET r == updateJob(jobs, currentJob, j, [status |-> "failed"])
     IN  jobs' = r[1] /\ currentJob' = r[2]
  /\ jpc' = [jpc EXCEPT ![j] = "finishing"]
  /\ UNCHANGED <<jobIdCounter, clock, dataVars, routeVars, stopVars, passVars, rfVars, exVars, auxVars>>

\* processEmails threw: the catch block's updateJob(failed), then `await addLog`
JobPipelineThrow(j, errorMessage) ==
  /\ jpc[j] = "pipeline"
  /\ LET r == updateJob(jobs, currentJob, j,
                        [status |-> "failed", error |-> errorMessage])
     IN  jobs' = r[1] /\ currentJob' = r[2]
  /\ jpc' = [jpc EXCEPT ![j] = "finishing"]
  /\ UNCHANGED <<jobIdCounter, clock, dataVars, routeVars, stopVars, passVars, rfVars, exVars, auxVars>>

\* the finally block: the slot is cleared
JobFinally(j) ==
  /\ jpc[j] = "finishing"
  /\ currentJob' = NoJob
  /\ jpc' = [jpc EXCEPT ![j] = "done"]
  /\ UNCHANGED <<jobs, jobIdCounter, clock, dataVars, routeVars, stopVars, passVars, rfVars, exVars, auxVars>>

\* one step of processJob(j)
JobStep(j) ==
  \/ JobStart(j)
  \/ JobPipelineReturn(j)
  \/ \E e \in PipelineErrors : JobPipelineThrow(j, e)
  \/ JobFinally(j)

-----------------------------------------------------------------------------
(* Stop route: POST /api/jobs/stop *)

\* the handler up to `await addLog`: both flags are raised
StopPost ==
  /\ stopCount < MaxStops
  /\ stopCount' = stopCount + 1
  /\ shouldStop' = TRUE
  /\ shouldStopParsing' = TRUE
  /\ stopAwaiting' = stopAwaiting + 1
  /\ UNCHANGED <<stopTimers, dataVars, routeVars, jobVars, passVars, rfVars, exVars, auxVars>>

\* the handler after `await addLog`: setTimeout(reset, 5000) and the response
StopSchedule ==
  /\ stopAwaiting > 0
  /\ stopAwaiting' = stopAwaiting - 1
  /\ stopTimers' = stopTimers + 1
  /\ UNCHANGED <<shouldStop, shouldStopParsing, stopCount,
                 dataVars, routeVars, jobVars, passVars, rfVars, exVars, auxVars>>

\* a faulty variant of the timer callback: only the route's own flag is reset
StopTimerFire_OwnFlagOnly ==
  /\ stopTimers > 0
  /\ stopTimers' = stopTimers - 1
  /\ shouldStop' = FALSE
  /\ UNCHANGED <<shouldStopParsing, stopAwaiting, stopCount,
                 dataVars, routeVars, jobVars, passVars, rfVars, exVars, auxVars>>

\* the timer callback: both flags are reset
StopTimerFire ==
  /\ stopTimers > 0
  /\ stopTimers' = stopTimers - 1
  /\ shouldStop' = FALSE
  /\ shouldStopParsing' = FALSE
  /\ UNCHANGED <<stopAwaiting, stopCount,
                 dataVars, routeVars, jobVars, passVars, rfVars, exVars, auxVars>>

StopStep == StopPost \/ StopSchedule \/ StopTimerFire

-----------------------------------------------------------------------------
(* One mailbox pass: processEmails(settings) in email-service.ts *)

\* the null that processEmailClassification returns for a skipped sender
NullEmail ==
  [classification |-> "null", status |-> "null", classified |-> FALSE, route |-> "skip"]

\* a faulty variant: the content is classified before the routing is looked at
processEmailClassification_ClassifiesFirst(email, settings, rs, lookupFails) ==
  LET whitelistStatus == IF lookupFails THEN "unsorted"
                         ELSE checkWhitelistStatus(email, settings, rs)
  IN  IF whitelistStatus = "skip"
        THEN [NullEmail EXCEPT !.classified = TRUE]
        ELSE [classification |-> whitelistStatus, status |-> "processed",
              classified |-> TRUE, route |-> whitelistStatus]

\* processEmailClassification(email, settings): the classified email, or
\* null for a skipped sender.  lookupFails: the scan over the rules threw
\* inside checkWhitelistStatus (a stored rule without a pattern), whose
\* catch block answers 'unsorted'.  classified: classifyEmail was invoked;
\* route: what checkWhitelistStatus answered.
processEmailClassification(email, settings, rs, lookupFails) ==
  LET whitelistStatus == IF lookupFails THEN "unsorted"
                         ELSE checkWhitelistStatus(email, settings, rs)
  IN  IF whitelistStatus = "skip"
        THEN NullEmail
        ELSE [classification |-> whitelistStatus, status |-> "processed",
              classified |-> TRUE, route |-> whitelistStatus]

\* the email the loop body builds from message number n and stores, given the
\* classification it settled on
StoredEmail(n, fromField, classified) ==
  [msg            |-> n,
   from           |-> fromField,
   senderEmail    |-> extractEmailAddress(fromField),
   classification |-> classified.classification,
   status         |-> classified.status]

\* processEmails is entered: the client is built
PassBegin ==
  /\ passPc = "idle"
  /\ passPc' = "connect"
  /\ UNCHANGED <<passSettings, mailbox, messageCount, processedCount, errors,
                 lockHeld, session, passError, passResult, threw, classifyCalls, routes,
                 dataVars, routeVars, jobVars, stopVars, rfVars, exVars, auxVars>>

\* await client.connect()
PassConnect ==
  /\ passPc = "connect"
  /\ \E ok \in BOOLEAN :
       IF ok THEN /\ session' = "connected"
                  /\ passPc' = "lock"
                  /\ UNCHANGED passError
             ELSE /\ passError' = TRUE
                  /\ passPc' = "catch"
                  /\ UNCHANGED session
  /\ UNCHANGED <<passSettings, mailbox, messageCount, processedCount, errors,
                 lockHeld, passResult, threw, classifyCalls, routes,
                 dataVars, routeVars, jobVars, stopVars, rfVars, exVars, auxVars>>

\* await client.getMailboxLock('INBOX')
PassLock ==
  /\ passPc = "lock"
  /\ \E ok \in BOOLEAN :
       IF ok THEN /\ lockHeld' = TRUE
                  /\ passPc' = "search"
                  /\ UNCHANGED passError
             ELSE /\ passError' = TRUE
                  /\ passPc' = "catch"
                  /\ UNCHANGED lockHeld
  /\ UNCHANGED <<passSettings, mailbox, messageCount, processedCount, errors,
                 session, passResult, threw, classifyCalls, routes,
                 dataVars, routeVars, jobVars, stopVars, rfVars, exVars, auxVars>>

\* await client.search({seen: false}); an empty result returns at once, a
\* non-empty one opens the fetch stream
PassSearch ==
  /\ passPc = "search"
  /\ \E ok \in BOOLEAN :
       IF ~ok THEN passError' = TRUE /\ passPc' = "finally"
       ELSE IF Len(mailbox) = 0 THEN passPc' = "finally" /\ UNCHANGED passError
       ELSE passPc' = "loop" /\ UNCHANGED passError
  /\ UNCHANGED <<passSettings, mailbox, messageCount, processedCount, errors,
                 lockHeld, session, passResult, threw, classifyCalls, routes,
                 dataVars, routeVars, jobVars, stopVars, rfVars, exVars, auxVars>>

\* the head of `for await (let message of messages)`: the next message is
\* taken (messageCount++), the stream is exhausted, or the stream throws
PassLoop ==
  /\ passPc = "loop"
  /\ \E streamOk \in BOOLEAN :
       IF ~streamOk
         THEN passError' = TRUE /\ passPc' = "finally" /\ UNCHANGED messageCount
       ELSE IF messageCount < Len(mailbox)
         THEN messageCount' = messageCount + 1 /\ passPc' = "message"
              /\ UNCHANGED passError
       ELSE passPc' = "finally" /\ UNCHANGED <<messageCount, passError>>
  /\ UNCHANGED <<passSettings, mailbox, processedCount, errors,
                 lockHeld, session, passResult, threw, classifyCalls, routes,
                 dataVars, routeVars, jobVars, stopVars, rfVars, exVars, auxVars>>

\* a faulty variant of the per-message catch: the failure is logged only
RecordError_LogOnly(errs, n) == errs

\* the per-message catch block: errors.push(`Failed to process message ${n} ...`)
RecordError(errs, n) == Append(errs, n)

\* the loop body for message number messageCount, inside its try/catch:
\* parse, WeTransfer check or processEmailClassification, addEmail
PassMessage ==
  /\ passPc = "message"
  /\ LET fromField == mailbox[messageCount].from
         email     == [from |-> fromField, senderEmail |-> extractEmailAddress(fromField)]
     IN  \E parseOk \in BOOLEAN :
         \E lookupFails \in (IF passSettings.optimized THEN {FALSE} ELSE BOOLEAN) :
           IF ~parseOk
             THEN /\ ~lookupFails
                  /\ errors' = RecordError(errors, messageCount)
                  /\ threw' = threw \cup {messageCount}
                  /\ routes' = Append(routes, "threw")
                  /\ UNCHANGED <<emails, processedCount, classifyCalls>>
             ELSE LET classifiedEmail ==
                        IF isWeTransferEmail(email)
                          THEN [classification |-> "inbox", status |-> "processed",
                                classified |-> FALSE, route |-> "bypassed"]
                          ELSE processEmailClassification(email, passSettings, rules,
                                                          lookupFails)
                  IN  /\ isWeTransferEmail(email) => ~lookupFails
                      /\ routes' = Append(routes, classifiedEmail.route)
                      /\ classifyCalls' = IF classifiedEmail.classified
                                            THEN classifyCalls \cup {messageCount}
                                            ELSE classifyCalls
                      /\ IF classifiedEmail.classification = "null"
                           THEN UNCHANGED <<emails, processedCount>>
                           ELSE /\ emails' = Append(emails,
                                       StoredEmail(messageCount, fromField, classifiedEmail))
                                /\ processedCount' = processedCount + 1
                      /\ UNCHANGED <<errors, threw>>
  /\ passPc' = "loop"
  /\ UNCHANGED <<rules, passSettings, mailbox, messageCount,
                 lockHeld, session, passError, passResult,
                 routeVars, jobVars, stopVars, rfVars, exVars, auxVars>>

\* a faulty variant of the finally block: the logout is skipped when the
\* block is entered by the early return of an empty search
PassFinally_EarlyReturnSkipsLogout ==
  /\ passPc = "finally"
  /\ lockHeld' = FALSE
  /\ IF ~passError /\ Len(mailbox) = 0
       THEN passPc' = "done" /\ passResult' = "returned" /\ UNCHANGED <<session, passError>>
       ELSE /\ session' = "loggedOut"
            /\ \E logoutOk \in BOOLEAN :
                 IF logoutOk /\ ~passError
                   THEN passPc' = "done" /\ passResult' = "returned" /\ UNCHANGED passError
                   ELSE passPc' = "catch" /\ passError' = TRUE /\ UNCHANGED passResult
  /\ UNCHANGED <<passSettings, mailbox, messageCount, processedCount, errors, threw, classifyCalls, routes,
                 dataVars, routeVars, jobVars, stopVars, rfVars, exVars, auxVars>>

\* the finally block: lock.release(), then await client.logout().  logout()
\* ends the session whether it resolves or throws; when it throws, or when an
\* exception entered the block, control passes to the outer catch.
PassFinally ==
  /\ passPc = "finally"
  /\ lockHeld' = FALSE
  /\ session' = "loggedOut"
  /\ \E logoutOk \in BOOLEAN :
       IF logoutOk /\ ~passError
         THEN passPc' = "done" /\ passResult' = "returned" /\ UNCHANGED passError
         ELSE passPc' = "catch" /\ passError' = TRUE /\ UNCHANGED passResult
  /\ UNCHANGED <<passSettings, mailbox, messageCount, processedCount, errors, threw, classifyCalls, routes,
                 dataVars, routeVars, jobVars, stopVars, rfVars, exVars, auxVars>>

\* the outer catch: the cleanup logout (its own failure is caught and logged),
\* then the rethrow
PassCatch ==
  /\ passPc = "catch"
  /\ session' = IF session = "connected" THEN "loggedOut" ELSE session
  /\ passPc' = "done"
  /\ passResult' = "threw"
  /\ UNCHANGED <<passSettings, mailbox, messageCount, processedCount, errors,
                 lockHeld, passError, threw, classifyCalls, routes,
                 dataVars, routeVars, jobVars, stopVars, rfVars, exVars, auxVars>>

PassStep ==
  \/ PassBegin
  \/ PassConnect
  \/ PassLock
  \/ PassSearch
  \/ PassLoop
  \/ PassMessage
  \/ PassFinally
  \/ PassCatch

-----------------------------------------------------------------------------
(* Attachment re-fetch: refetchEmailWithAttachments in email-file-service.ts *)

\* what the search / fetch / parse inside the try block come to
RefetchOutcomes == {"searchThrows", "notFound", "parseThrows", "noContent", "updated"}

RefetchBegin ==
  /\ rfPc = "idle"
  /\ rfPc' = "connect"
  /\ UNCHANGED <<rfLock, rfSession, rfError, rfResult,
                 dataVars, routeVars, jobVars, stopVars, passVars, exVars, auxVars>>

\* await client.connect()
RefetchConnect ==
  /\ rfPc = "connect"
  /\ \E ok \in BOOLEAN :
       IF ok THEN rfSession' = "connected" /\ rfPc' = "lock" /\ UNCHANGED rfError
             ELSE rfError' = TRUE /\ rfPc' = "catch" /\ UNCHANGED rfSession
  /\ UNCHANGED <<rfLock, rfResult, dataVars, routeVars, jobVars, stopVars, passVars, exVars, auxVars>>

\* await client.getMailboxLock('INBOX')
RefetchLock ==
  /\ rfPc = "lock"
  /\ \E ok \in BOOLEAN :
       IF ok THEN rfLock' = TRUE /\ rfPc' = "search" /\ UNCHANGED rfError
             ELSE rfError' = TRUE /\ rfPc' = "catch" /\ UNCHANGED rfLock
  /\ UNCHANGED <<rfSession, rfResult, dataVars, routeVars, jobVars, stopVars, passVars, exVars, auxVars>>

\* the try block: search, fetch of the first match, simpleParser; it returns
\* the updated email or throws
RefetchSearch ==
  /\ rfPc = "search"
  /\ \E outcome \in RefetchOutcomes :
       rfError' = (outcome # "updated")
  /\ rfPc' = "finally"
  /\ UNCHANGED <<rfLock, rfSession, rfResult,
                 dataVars, routeVars, jobVars, stopVars, passVars, exVars, auxVars>>

\* the finally block: lock.release(), then await client.logout()
RefetchFinally ==
  /\ rfPc = "finally"
  /\ rfLock' = FALSE
  /\ rfSession' = "loggedOut"
  /\ \E logoutOk \in BOOLEAN :
       IF logoutOk /\ ~rfError
         THEN rfPc' = "done" /\ rfResult' = "updated" /\ UNCHANGED rfError
         ELSE rfPc' = "catch" /\ rfError' = TRUE /\ UNCHANGED rfResult
  /\ UNCHANGED <<dataVars, routeVars, jobVars, stopVars, passVars, exVars, auxVars>>

\* the catch block: the cleanup logout, then the original email is returned
RefetchCatch ==
  /\ rfPc = "catch"
  /\ rfSession' = IF rfSession = "connected" THEN "loggedOut" ELSE rfSession
  /\ rfPc' = "done"
  /\ rfResult' = "original"
  /\ UNCHANGED <<rfLock, rfError, dataVars, routeVars, jobVars, stopVars, passVars, exVars, auxVars>>

RefetchStep ==
  \/ RefetchBegin
  \/ RefetchConnect
  \/ RefetchLock
  \/ RefetchSearch
  \/ RefetchFinally
  \/ RefetchCatch

-----------------------------------------------------------------------------
(* Structured extractor: parseEmailWithAI in ai-parsing-service.ts *)

\* the replies an AI service sends: text that JSON.parse accepts or not, and
\* in the parsed object the shape of items and the presence of two fields
AiReplies ==
  [json               : BOOLEAN,
   items              : {"missing", "notArray", "empty", "nullFirst", "plain", "described"},
   customerName       : BOOLEAN,
   projectDescription : BOOLEAN]

NoReply ==
  [json |-> FALSE, items |-> "missing", customerName |-> FALSE, projectDescription |-> FALSE]

NoLocals ==
  [expectedType |-> "none", attachments |-> 0, aiResponse |-> NoReply,
   confidence |-> 0, failed |-> {}, error |-> "none"]

NoResult ==
  [raised |-> FALSE, type |-> "none", data |-> "none", confidence |-> 0,
   reasoning |-> "none", attachmentsSaved |-> 0, emailFiles |-> "undefined"]

\* the requiredFields of each type
RequiredFields(expectedType) ==
  IF expectedType = "order"
    THEN <<"customerName", "items">>
    ELSE <<"customerName", "items", "projectDescription">>

\* parsed[field] && parsed[field] !== null, once items is known to be an array
FieldPresent(reply, field) ==
  IF field = "items" THEN TRUE
  ELSE IF field = "customerName" THEN reply.customerName
  ELSE reply.projectDescription

\* a faulty variant of parseAIParsingResponse: the bonus for a described first
\* item is 0.4
parseAIParsingResponse_BigBonus(reply, expectedType) ==
  IF ~reply.json \/ reply.items \in {"missing", "notArray", "nullFirst"}
    THEN [threw |-> TRUE, type |-> expectedType, confidence |-> 0]
    ELSE LET requiredFields == RequiredFields(expectedType)
             presentFields  == { i \in 1..Len(requiredFields) :
                                   FieldPresent(reply, requiredFields[i]) }
             base  == 30 + (Cardinality(presentFields) * 60) \div Len(requiredFields)
             capped == IF base > 95 THEN 95 ELSE base
             confidence == IF reply.items = "described" THEN capped + 40 ELSE capped
         IN  [threw |-> FALSE, type |-> expectedType,
              confidence |-> IF confidence > 95 THEN 95
                             ELSE IF confidence < 10 THEN 10 ELSE confidence]

\* a faulty variant of parseAIParsingResponse: the bonus is added after the
\* last clamp
parseAIParsingResponse_BonusUnclamped(reply, expectedType) ==
  IF ~reply.json \/ reply.items \in {"missing", "notArray", "nullFirst"}
    THEN [threw |-> TRUE, type |-> expectedType, confidence |-> 0]
    ELSE LET requiredFields == RequiredFields(expectedType)
             presentFields  == { i \in 1..Len(requiredFields) :
                                   FieldPresent(reply, requiredFields[i]) }
             base  == 30 + (Cardinality(presentFields) * 60) \div Len(requiredFields)
             bonus == IF reply.items = "described" THEN 10 ELSE 0
         IN  [threw |-> FALSE, type |-> expectedType, confidence |-> base + bonus]

\* parseAIParsingResponse(response, expectedType), confidences in hundredths:
\* a reply that is not JSON, has no items array, or whose first item is null
\* throws; otherwise min(95, 30 + present/required * 60), plus 10 when the
\* first item has a description, clamped to [10, 95]
parseAIParsingResponse(reply, expectedType) ==
  IF ~reply.json \/ reply.items \in {"missing", "notArray", "nullFirst"}
    THEN [threw |-> TRUE, type |-> expectedType, confidence |-> 0]
    ELSE LET requiredFields == RequiredFields(expectedType)
             presentFields  == { i \in 1..Len(requiredFields) :
                                   FieldPresent(reply, requiredFields[i]) }
             base  == 30 + (Cardinality(presentFields) * 60) \div Len(requiredFields)
             capped == IF base > 95 THEN 95 ELSE base
             confidence == IF reply.items = "described" THEN capped + 10 ELSE capped
         IN  [threw |-> FALSE, type |-> expectedType,
              confidence |-> IF confidence > 95 THEN 95
                             ELSE IF confidence < 10 THEN 10 ELSE confidence]

\* expectedType / fallbackType: order for WeTransfer and for emails classified
\* as order, estimate otherwise
ExpectedType(email) ==
  IF isWeTransferEmail(email) THEN "order"
  ELSE IF email.parsedType = "order" THEN "order" ELSE "estimate"

\* the call up to the re-fetch decision
ExStart ==
  /\ exPc = "idle"
  /\ exLocals' = [exLocals EXCEPT !.expectedType = ExpectedType(exIn.email),
                                  !.attachments = exIn.email.attachments]
  /\ exPc' = IF exIn.saveFiles /\ exIn.email.attachments = 0 THEN "refetch" ELSE "callAI"
  /\ UNCHANGED <<exIn, exOut, dataVars, routeVars, jobVars, stopVars, passVars, rfVars, auxVars>>

\* await refetchEmailWithAttachments(email, settings) in its try/catch: the
\* email comes back with its attachments, or the re-fetch throws and the
\* original email is kept
ExRefetch ==
  /\ exPc = "refetch"
  /\ \/ \E found \in 0..1 : exLocals' = [exLocals EXCEPT !.attachments = found]
     \/ exLocals' = [exLocals EXCEPT !.failed = @ \cup {"refetch"}]
  /\ exPc' = "callAI"
  /\ UNCHANGED <<exIn, exOut, dataVars, routeVars, jobVars, stopVars, passVars, rfVars, auxVars>>

\* how a call of callGoogleAI / callOllamaAI that reaches the network ends
AiOutcomes == {"network", "timeout", "status", "empty", "reply"}

\* the AI call: an unsupported provider and a missing Google key throw
\* before any request; a request times out (Google only), fails, answers
\* with a non-success status or an empty text, or yields a reply
ExCallAI ==
  /\ exPc = "callAI"
  /\ LET provider == exIn.settings.aiProvider
     IN  IF provider \notin {"google", "ollama"}
              \/ (provider = "google" /\ ~exIn.settings.googleApiKey)
           THEN /\ exPc' = "catch"
                /\ exLocals' = [exLocals EXCEPT !.failed = @ \cup {"aiCall"},
                                                !.error = "aiCall"]
           ELSE \E outcome \in AiOutcomes : \E reply \in AiReplies :
                  /\ outcome = "timeout" => provider = "google"
                  /\ IF outcome = "reply"
                       THEN /\ exLocals' = [exLocals EXCEPT !.aiResponse = reply]
                            /\ exPc' = "parse"
                       ELSE /\ reply = NoReply
                            /\ exPc' = "catch"
                            /\ exLocals' = [exLocals EXCEPT !.failed = @ \cup {"aiCall"},
                                                            !.error = "aiCall"]
  /\ UNCHANGED <<exIn, exOut, dataVars, routeVars, jobVars, stopVars, passVars, rfVars, auxVars>>

\* parseAIParsingResponse in its try/catch, which rethrows
ExParse ==
  /\ exPc = "parse"
  /\ LET parsedData == parseAIParsingResponse(exLocals.aiResponse, exLocals.expectedType)
     IN  IF parsedData.threw
           THEN /\ exPc' = "catch"
                /\ exLocals' = [exLocals EXCEPT !.failed = @ \cup {"parse"},
                                                !.error = "parse"]
           ELSE /\ exLocals' = [exLocals EXCEPT !.confidence = parsedData.confidence]
                /\ exPc' = "save"
  /\ UNCHANGED <<exIn, exOut, dataVars, routeVars, jobVars, stopVars, passVars, rfVars, auxVars>>

\* how the file save ends: not asked for, done, saveEmailWithFiles throws, or
\* saveParsedDataJson throws after the email files were written
SaveOutcomes == {"skipped", "saved", "archiveFailed", "parsedJsonFailed"}

\* the emailFiles variable when the result is built: assigned once
\* saveEmailWithFiles has returned, completed with parsedJsonFile once
\* saveParsedDataJson has returned
EmailFilesAfter(outcome) ==
  IF outcome = "saved" THEN "folderWithParsedJson"
  ELSE IF outcome = "parsedJsonFailed" THEN "folder"
  ELSE "undefined"

\* a faulty variant of ExSave: an error of the file save reaches the outer
\* catch
ExSave_ArchiveErrorEscapes ==
  /\ exPc = "save"
  /\ \E outcome \in SaveOutcomes :
       /\ outcome = "skipped" <=> ~exIn.saveFiles
       /\ IF outcome \in {"archiveFailed", "parsedJsonFailed"}
            THEN /\ exLocals' = [exLocals EXCEPT !.failed = @ \cup {"archive"},
                                                 !.error = "archive"]
                 /\ exPc' = "catch"
                 /\ UNCHANGED exOut
            ELSE /\ UNCHANGED exLocals
                 /\ exPc' = "done"
                 /\ exOut' = [raised           |-> FALSE,
                              type             |-> exLocals.expectedType,
                              data             |-> "parsed",
                              confidence       |-> exLocals.confidence,
                              reasoning        |-> "parsed",
                              attachmentsSaved |-> IF outcome = "saved"
                                                     THEN exLocals.attachments ELSE 0,
                              emailFiles       |-> EmailFilesAfter(outcome)]
  /\ UNCHANGED <<exIn, dataVars, routeVars, jobVars, stopVars, passVars, rfVars, auxVars>>

\* the file save in its try/catch (skipped without saveFiles), then the
\* result: the parsed record, with the attachments written before any error
ExSave ==
  /\ exPc = "save"
  /\ \E outcome \in SaveOutcomes :
       /\ outcome = "skipped" <=> ~exIn.saveFiles
       /\ exLocals' = IF outcome \in {"archiveFailed", "parsedJsonFailed"}
                        THEN [exLocals EXCEPT !.failed = @ \cup {"archive"}]
                        ELSE exLocals
       /\ exOut' = [raised           |-> FALSE,
                    type             |-> exLocals.expectedType,
                    data             |-> "parsed",
                    confidence       |-> exLocals.confidence,
                    reasoning        |-> "parsed",
                    attachmentsSaved |-> IF outcome \in {"saved", "parsedJsonFailed"}
                                           THEN exLocals.attachments ELSE 0,
                    emailFiles       |-> EmailFilesAfter(outcome)]
  /\ exPc' = "done"
  /\ UNCHANGED <<exIn, dataVars, routeVars, jobVars, stopVars, passVars, rfVars, auxVars>>

\* the outer catch: the fallback record, with the placeholder item of
\* createFallbackOrderData / createFallbackEstimateData and the error text
ExCatch ==
  /\ exPc = "catch"
  /\ exOut' = [raised           |-> FALSE,
               type             |-> ExpectedType(exIn.email),
               data             |-> "placeholder",
               confidence       |-> 10,
               reasoning        |-> exLocals.error,
               attachmentsSaved |-> 0,
               emailFiles       |-> "undefined"]
  /\ exPc' = "done"
  /\ UNCHANGED <<exIn, exLocals, dataVars, routeVars, jobVars, stopVars, passVars, rfVars, auxVars>>

ExStep == ExStart \/ ExRefetch \/ ExCallAI \/ ExParse \/ ExSave \/ ExCatch

-----------------------------------------------------------------------------
(* Content classifier: classifyEmail in classification-service.ts *)

NoClassification == [type |-> "none", confidence |-> 0]

\* the result of both catch blocks (classifyEmail, classifyWithAI)
ClassificationFailed == [type |-> "other", confidence |-> 0]

\* classifyByKeywords, from the number of order and estimate keywords found
\* in subject + body; confidences in hundredths
classifyByKeywords(orderScore, estimateScore) ==
  IF orderScore > estimateScore /\ orderScore > 0
    THEN [type |-> "order",
          confidence |-> IF 30 + orderScore * 10 > 80 THEN 80 ELSE 30 + orderScore * 10]
  ELSE IF estimateScore > orderScore /\ estimateScore > 0
    THEN [type |-> "estimate",
          confidence |-> IF 30 + estimateScore * 10 > 80 THEN 80 ELSE 30 + estimateScore * 10]
  ELSE [type |-> "other", confidence |-> 50]

\* the replies of the AI service to a classification prompt: JSON or not,
\* the type and confidence the JSON carries, and the words the text mentions
ClassReplies ==
  [json          : BOOLEAN,
   type          : {"order", "estimate", "other", "bogus"},
   hasConfidence : BOOLEAN,
   confidence    : {-20, 60, 90, 130},
   mentions      : {"order", "estimate", "neither"}]

\* the reply passes JSON.parse and carries one of the three types
ReplyParses(reply) == reply.json /\ reply.type \in {"order", "estimate", "other"}

\* parseAIResponse(response): the parsed type with its confidence clamped to
\* [0, 1] (0.5 without a number); when the parse throws, a guess from the
\* words of the reply
parseAIResponse(reply) ==
  IF ReplyParses(reply)
    THEN [type |-> reply.type,
          confidence |-> IF ~reply.hasConfidence THEN 50
                         ELSE IF reply.confidence < 0 THEN 0
                         ELSE IF reply.confidence > 100 THEN 100
                         ELSE reply.confidence]
  ELSE IF reply.mentions = "order" THEN [type |-> "order", confidence |-> 60]
  ELSE IF reply.mentions = "estimate" THEN [type |-> "estimate", confidence |-> 60]
  ELSE [type |-> "other", confidence |-> 30]

\* how a request to the AI service ends
ClassOutcomes == {"network", "status", "empty", "reply"}

\* the throw sites below classifyWithAI: an unsupported provider, a missing
\* Google key, a request that fails, a bad status or an empty reply
AiCallFails(settings, outcome) ==
  \/ settings.aiProvider \notin {"google", "ollama"}
  \/ (settings.aiProvider = "google" /\ ~settings.googleApiKey)
  \/ outcome # "reply"

\* a faulty variant of classifyWithAI: no try/catch of its own, a failure
\* travels on to the caller
classifyWithAI_Rethrows(settings, outcome, reply) ==
  IF AiCallFails(settings, outcome)
    THEN [threw |-> TRUE, result |-> NoClassification]
    ELSE [threw |-> FALSE, result |-> parseAIResponse(reply)]

\* classifyWithAI(email, settings): an unsupported provider, a missing Google
\* key and a failed request all end in its catch block
classifyWithAI(settings, outcome, reply) ==
  IF AiCallFails(settings, outcome)
    THEN [threw |-> FALSE, result |-> ClassificationFailed]
    ELSE [threw |-> FALSE, result |-> parseAIResponse(reply)]

\* the stage of classifyEmail at which the call is made to throw by what it is
\* given (an email without a from field, keyword settings that are not text)
ClassThrows == {"none", "bulkCheck", "keywords"}

\* a faulty variant of ClStart: the AI stage is entered whatever the
\* useAiProcessing setting says
ClStart_IgnoresAiSetting ==
  /\ classifier.pc = "idle"
  /\ LET c == classifier
         keywordResult == classifyByKeywords(c.orderScore, c.estimateScore)
     IN  classifier' =
           IF c.throwsAt = "bulkCheck"
             THEN [c EXCEPT !.pc = "done", !.raised = "bulkCheck",
                            !.result = ClassificationFailed]
           ELSE IF isWeTransferEmail(c.email)
             THEN [c EXCEPT !.pc = "done", !.result = [type |-> "order", confidence |-> 95]]
           ELSE IF c.throwsAt = "keywords"
             THEN [c EXCEPT !.pc = "done", !.raised = "keywords",
                            !.result = ClassificationFailed]
           ELSE IF keywordResult.confidence > 70
             THEN [c EXCEPT !.pc = "done", !.keywordResult = keywordResult,
                            !.result = keywordResult]
           ELSE IF TRUE
             THEN [c EXCEPT !.pc = "ai", !.keywordResult = keywordResult,
                            !.aiCalls = c.aiCalls + 1]
           ELSE [c EXCEPT !.pc = "done", !.keywordResult = keywordResult,
                          !.result = keywordResult]
  /\ UNCHANGED <<dataVars, routeVars, jobVars, stopVars, passVars, rfVars, exVars, reqVars,
                 confPair, parseCalls, settingsStore, entryPasses, archive>>

\* classifyEmail up to its AI stage: WeTransfer check, keyword scoring, the
\* cheap return above 0.7, the return without AI when AI is disabled
ClStart ==
  /\ classifier.pc = "idle"
  /\ LET c == classifier
         keywordResult == classifyByKeywords(c.orderScore, c.estimateScore)
     IN  classifier' =
           IF c.throwsAt = "bulkCheck"
             THEN [c EXCEPT !.pc = "done", !.raised = "bulkCheck",
                            !.result = ClassificationFailed]
           ELSE IF isWeTransferEmail(c.email)
             THEN [c EXCEPT !.pc = "done", !.result = [type |-> "order", confidence |-> 95]]
           ELSE IF c.throwsAt = "keywords"
             THEN [c EXCEPT !.pc = "done", !.raised = "keywords",
                            !.result = ClassificationFailed]
           ELSE IF keywordResult.confidence > 70
             THEN [c EXCEPT !.pc = "done", !.keywordResult = keywordResult,
                            !.result = keywordResult]
           ELSE IF c.settings.useAiProcessing
             THEN [c EXCEPT !.pc = "ai", !.keywordResult = keywordResult,
                            !.aiCalls = c.aiCalls + 1]
           ELSE [c EXCEPT !.pc = "done", !.keywordResult = keywordResult,
                          !.result = keywordResult]
  /\ UNCHANGED <<dataVars, routeVars, jobVars, stopVars, passVars, rfVars, exVars, reqVars,
                 confPair, parseCalls, settingsStore, entryPasses, archive>>

\* await classifyWithAI(email, settings), then the final selection
ClCallAI ==
  /\ classifier.pc = "ai"
  /\ \E outcome \in ClassOutcomes : \E reply \in ClassReplies :
       LET c  == classifier
           ai == classifyWithAI(c.settings, outcome, reply)
           raised == IF AiCallFails(c.settings, outcome) THEN "ai"
                     ELSE IF ~ReplyParses(reply) THEN "aiParse"
                     ELSE "none"
       IN  classifier' =
             IF ai.threw
               THEN [c EXCEPT !.pc = "done", !.raised = raised, !.aiResult = ai.result,
                              !.result = ClassificationFailed]
             ELSE IF ai.result.confidence > c.keywordResult.confidence
               THEN [c EXCEPT !.pc = "done", !.raised = raised, !.aiResult = ai.result,
                              !.result = ai.result]
             ELSE [c EXCEPT !.pc = "done", !.raised = raised, !.aiResult = ai.result,
                            !.result = c.keywordResult]
  /\ UNCHANGED <<dataVars, routeVars, jobVars, stopVars, passVars, rfVars, exVars, reqVars,
                 confPair, parseCalls, settingsStore, entryPasses, archive>>

ClStep == ClStart \/ ClCallAI

-----------------------------------------------------------------------------
(* parseAIParsingResponse applied to two replies for the same target type *)

\* the required fields of the type that the reply populates
PopulatedFields(reply, expectedType) ==
  LET requiredFields == RequiredFields(expectedType)
  IN  { requiredFields[i] : i \in { j \in 1..Len(requiredFields) :
                                      FieldPresent(reply, requiredFields[j]) } }

\* both replies are handed to parseAIParsingResponse
ConfCompute ==
  /\ confPair.pc = "idle"
  /\ LET resA == parseAIParsingResponse(confPair.a, confPair.expectedType)
         resB == parseAIParsingResponse(confPair.b, confPair.expectedType)
     IN  confPair' = [confPair EXCEPT !.pc = "done",
                                      !.threwA = resA.threw, !.confA = resA.confidence,
                                      !.threwB = resB.threw, !.confB = resB.confidence]
  /\ UNCHANGED <<dataVars, routeVars, jobVars, stopVars, passVars, rfVars, exVars, reqVars,
                 classifier, parseCalls, settingsStore, entryPasses, archive>>

-----------------------------------------------------------------------------
(* Settings: /api/settings, the settings cache of the data store and the
   settings file; 0 stands for null, 1..MaxSettings for settings objects *)

SettingsValues == 1..MaxSettings

\* POST /api/settings up to the end of saveSettings(settings): the cache is
\* replaced
SetPostCache ==
  /\ settingsStore.pc = "idle"
  /\ \E s \in SettingsValues :
       settingsStore' = [settingsStore EXCEPT !.pc = "persist", !.posted = s,
                                              !.previous = settingsStore.cache,
                                              !.cache = s, !.response = "none"]
  /\ UNCHANGED <<dataVars, routeVars, jobVars, stopVars, passVars, rfVars, exVars, reqVars,
                 classifier, confPair, parseCalls, entryPasses, archive>>

\* await saveSettingsToFile(settings): the file is written and the route
\* answers success, or the write throws and the route's catch answers 500
SetPostPersist ==
  /\ settingsStore.pc = "persist"
  /\ \/ settingsStore' = [settingsStore EXCEPT !.pc = "idle",
                                                !.file = settingsStore.posted,
                                                !.response = "success"]
     \/ settingsStore' = [settingsStore EXCEPT !.pc = "idle", !.response = "error"]
  /\ UNCHANGED <<dataVars, routeVars, jobVars, stopVars, passVars, rfVars, exVars, reqVars,
                 classifier, confPair, parseCalls, entryPasses, archive>>

\* GET /api/settings: getSettings(), and with an empty cache the settings
\* file, which is then cached
SetGet ==
  /\ LET fromMemory == settingsStore.cache
         settings   == IF fromMemory # 0 THEN fromMemory ELSE settingsStore.file
     IN  settingsStore' = [settingsStore EXCEPT !.cache = settings, !.got = settings]
  /\ UNCHANGED <<dataVars, routeVars, jobVars, stopVars, passVars, rfVars, exVars, reqVars,
                 classifier, confPair, parseCalls, entryPasses, archive>>

SetStep == SetPostCache \/ SetPostPersist \/ SetGet

-----------------------------------------------------------------------------
(* The entry points of processEmails: the job runner's processJob, POST
   /api/email/process and POST /api/email/process-optimized.  Each pass opens
   its own IMAP client and takes the INBOX lock of that client. *)

EntryPoints == {"processJob", "process", "processOptimized"}

\* an entry point calls processEmails(settings): the two routes after
\* validating the request only, processJob for the one job it runs
EntryStart(e) ==
  /\ entryPasses[e].pc = "idle"
  /\ entryPasses[e].passes < MaxPasses
  /\ entryPasses' = [entryPasses EXCEPT ![e].pc = "connecting"]
  /\ UNCHANGED <<dataVars, routeVars, jobVars, stopVars, passVars, rfVars, exVars, reqVars,
                 classifier, confPair, parseCalls, settingsStore, archive>>

\* await client.connect(); lock = await client.getMailboxLock('INBOX')
EntryLock(e) ==
  /\ entryPasses[e].pc = "connecting"
  /\ entryPasses' = [entryPasses EXCEPT ![e].pc = "locked"]
  /\ UNCHANGED <<dataVars, routeVars, jobVars, stopVars, passVars, rfVars, exVars, reqVars,
                 classifier, confPair, parseCalls, settingsStore, archive>>

\* the finally block of the pass: lock.release(), client.logout()
EntryFinish(e) ==
  /\ entryPasses[e].pc = "locked"
  /\ entryPasses' = [entryPasses EXCEPT ![e].pc = "idle",
                                        ![e].passes = entryPasses[e].passes + 1]
  /\ UNCHANGED <<dataVars, routeVars, jobVars, stopVars, passVars, rfVars, exVars, reqVars,
                 classifier, confPair, parseCalls, settingsStore, archive>>

EntryStep == \E e \in EntryPoints : EntryStart(e) \/ EntryLock(e) \/ EntryFinish(e)

-----------------------------------------------------------------------------
(* Requests on stored emails: PATCH /api/emails (single and bulk), POST
   /api/emails/parse, POST /api/emails/auto-parse, POST /api/emails/reclassify.
   An email's id is its msg field. *)

Classifications == {"inbox", "whitelist", "blacklist", "pending", "unsorted"}

EmailIds == { emails[n].msg : n \in 1..Len(emails) }

\* updateEmail(id, updates) with updates = {classification}: the fields are
\* merged into the email with that id
updateEmail(es, id, classification) ==
  [n \in 1..Len(es) |->
     IF es[n].msg = id THEN [es[n] EXCEPT !.classification = classification] ELSE es[n]]

\* PATCH /api/emails with {id, updates}: the updates of the request body are
\* handed to updateEmail as they are
StorePatch ==
  /\ \E id \in EmailIds : \E c \in Classifications :
       emails' = updateEmail(emails, id, c)
  /\ UNCHANGED <<rules, routeVars, jobVars, stopVars, passVars, rfVars, exVars, auxVars>>

\* PATCH /api/emails with {bulk, updates}: bulkUpdateEmails merges each update
\* into its email
StoreBulkPatch ==
  /\ \E ids \in (SUBSET EmailIds) \ {{}} : \E c \in Classifications :
       emails' = [n \in 1..Len(emails) |->
                    IF emails[n].msg \in ids
                      THEN [emails[n] EXCEPT !.classification = c] ELSE emails[n]]
  /\ UNCHANGED <<rules, routeVars, jobVars, stopVars, passVars, rfVars, exVars, auxVars>>

\* the calls of parseEmailWithAI a route makes for the emails with the given
\* ids, in store order: the route and the classification of the email passed
RECURSIVE ParseCallsFor(_, _, _)
ParseCallsFor(es, ids, route) ==
  IF es = <<>> THEN <<>>
  ELSE (IF Head(es).msg \in ids
          THEN << [route |-> route, classification |-> Head(es).classification] >>
          ELSE <<>>)
         \o ParseCallsFor(Tail(es), ids, route)

\* POST /api/emails/parse with {emailIds, type}: every stored email whose id
\* is listed goes to parseEmailWithAI and is marked processed
StoreForceParse ==
  /\ \E ids \in (SUBSET EmailIds) \ {{}} :
       /\ Len(parseCalls) + Cardinality(ids) <= MaxParses
       /\ parseCalls' = parseCalls \o ParseCallsFor(emails, ids, "parse")
       /\ emails' = [n \in 1..Len(emails) |->
                      IF emails[n].msg \in ids
                        THEN [emails[n] EXCEPT !.status = "processed"] ELSE emails[n]]
  /\ UNCHANGED <<rules, routeVars, jobVars, stopVars, passVars, rfVars, exVars, reqVars,
                 classifier, confPair, settingsStore, entryPasses, archive>>

\* POST /api/emails/auto-parse with {emailId, type}: the email with that id
\* goes to parseEmailWithAI and is marked processed
StoreAutoParse ==
  /\ \E id \in EmailIds :
       /\ Len(parseCalls) < MaxParses
       /\ parseCalls' = parseCalls \o ParseCallsFor(emails, {id}, "auto-parse")
       /\ emails' = [n \in 1..Len(emails) |->
                      IF emails[n].msg = id
                        THEN [emails[n] EXCEPT !.status = "processed"] ELSE emails[n]]
  /\ UNCHANGED <<rules, routeVars, jobVars, stopVars, passVars, rfVars, exVars, reqVars,
                 classifier, confPair, settingsStore, entryPasses, archive>>

\* senderEmail === pattern || senderEmail.includes(pattern) ||
\* pattern.includes(senderEmail), against the rules of one type, active or not
RuleMatches(senderEmail, type) ==
  \E i \in 1..Len(rules) :
    /\ rules[i].type = type
    /\ \/ includes(toLowerCase(senderEmail), toLowerCase(rules[i].pattern))
       \/ includes(toLowerCase(rules[i].pattern), toLowerCase(senderEmail))

\* the classification the reclassify route gives an email it keeps
Reclassified(email) ==
  IF RuleMatches(email.senderEmail, "whitelist") THEN "inbox"
  ELSE IF email.classification # "unsorted" THEN "unsorted"
  ELSE email.classification

RECURSIVE ReclassifyAll(_)
ReclassifyAll(es) ==
  IF es = <<>> THEN <<>>
  ELSE (IF RuleMatches(Head(es).senderEmail, "blacklist") THEN <<>>
        ELSE << [Head(es) EXCEPT !.classification = Reclassified(Head(es))] >>)
         \o ReclassifyAll(Tail(es))

\* POST /api/emails/reclassify: emails of senders matching a blacklist rule
\* are deleted, the others become inbox (whitelist match) or unsorted
StoreReclassify ==
  /\ emails # <<>>
  /\ emails' = ReclassifyAll(emails)
  /\ UNCHANGED <<rules, routeVars, jobVars, stopVars, passVars, rfVars, exVars, auxVars>>

StoreStep ==
  StorePatch \/ StoreBulkPatch \/ StoreForceParse \/ StoreAutoParse \/ StoreReclassify

-----------------------------------------------------------------------------
(* File archiver: saveEmailWithFiles and saveEmailAttachments *)

\* one awaited step of saveEmailWithFiles outside the attachment loop: it
\* succeeds, or it throws into the catch block, which logs and rethrows
ArchiveStep(pc, step, nextPc) ==
  /\ archive.pc = pc
  /\ \/ archive' = [archive EXCEPT !.attempted = @ \cup {step}, !.pc = nextPc]
     \/ archive' = [archive EXCEPT !.attempted = @ \cup {step}, !.failedStep = step,
                                   !.pc = "done", !.result = "threw"]

\* await fs.mkdir(folderPath, { recursive: true })
ArMkdir ==
  /\ ArchiveStep("mkdir", "mkdir", "html")
  /\ UNCHANGED <<dataVars, routeVars, jobVars, stopVars, passVars, rfVars, exVars, reqVars,
                 classifier, confPair, parseCalls, settingsStore, entryPasses>>

\* const htmlFile = await saveEmailHtml(email, folderPath)
ArHtml ==
  /\ ArchiveStep("html", "html", "json")
  /\ UNCHANGED <<dataVars, routeVars, jobVars, stopVars, passVars, rfVars, exVars, reqVars,
                 classifier, confPair, parseCalls, settingsStore, entryPasses>>

\* const jsonFile = await saveEmailJson(email, folderPath)
ArJson ==
  /\ ArchiveStep("json", "json", "attachments")
  /\ UNCHANGED <<dataVars, routeVars, jobVars, stopVars, passVars, rfVars, exVars, reqVars,
                 classifier, confPair, parseCalls, settingsStore, entryPasses>>

\* saveEmailAttachments up to its loop: no attachments, return []; else the
\* attachments folder is created
ArAttachDir ==
  /\ archive.pc = "attachments"
  /\ IF archive.attachments = 0
       THEN archive' = [archive EXCEPT !.pc = "done", !.result = "returned"]
       ELSE \/ archive' = [archive EXCEPT !.attempted = @ \cup {"attachmentsDir"},
                                          !.pc = "attachment"]
            \/ archive' = [archive EXCEPT !.attempted = @ \cup {"attachmentsDir"},
                                          !.failedStep = "attachmentsDir",
                                          !.pc = "done", !.result = "threw"]
  /\ UNCHANGED <<dataVars, routeVars, jobVars, stopVars, passVars, rfVars, exVars, reqVars,
                 classifier, confPair, parseCalls, settingsStore, entryPasses>>

\* a faulty variant of ArAttachment: no try/catch around one attachment
ArAttachment_Unisolated ==
  /\ archive.pc = "attachment"
  /\ LET a == archive.next
         last == a = archive.attachments
     IN  \E outcome \in {"written", "skipped", "failed"} :
           archive' = [archive EXCEPT
             !.attemptedAtts = @ \cup {a},
             !.savedFiles = IF outcome = "written" THEN @ \cup {a} ELSE @,
             !.failedAtts = IF outcome = "failed" THEN @ \cup {a} ELSE @,
             !.next = a + 1,
             !.pc = IF last \/ outcome = "failed" THEN "done" ELSE "attachment",
             !.result = IF outcome = "failed" THEN "threw"
                        ELSE IF last THEN "returned" ELSE "none"]
  /\ UNCHANGED <<dataVars, routeVars, jobVars, stopVars, passVars, rfVars, exVars, reqVars,
                 classifier, confPair, parseCalls, settingsStore, entryPasses>>

\* one round of the attachment loop in its try/catch: the file is written,
\* skipped (no data, unsupported data, too large) or its write fails and is
\* logged; after the last one saveEmailWithFiles returns
ArAttachment ==
  /\ archive.pc = "attachment"
  /\ LET a == archive.next
         last == a = archive.attachments
     IN  \E outcome \in {"written", "skipped", "failed"} :
           archive' = [archive EXCEPT
             !.attemptedAtts = @ \cup {a},
             !.savedFiles = IF outcome = "written" THEN @ \cup {a} ELSE @,
             !.failedAtts = IF outcome = "failed" THEN @ \cup {a} ELSE @,
             !.next = a + 1,
             !.pc = IF last THEN "done" ELSE "attachment",
             !.result = IF last THEN "returned" ELSE "none"]
  /\ UNCHANGED <<dataVars, routeVars, jobVars, stopVars, passVars, rfVars, exVars, reqVars,
                 classifier, confPair, parseCalls, settingsStore, entryPasses>>

ArStep == ArMkdir \/ ArHtml \/ ArJson \/ ArAttachDir \/ ArAttachment

-----------------------------------------------------------------------------
(* Force-parse route: POST /api/emails/parse *)

\* the loop variables when the loop over n emails to parse begins
ForceParseBegin(n) ==
  [pc |-> "check", n |-> n, i |-> 1, reads |-> [k \in 1..n |-> 0],
   started |-> {}, finishedUnderStop |-> {}, updateCalls |-> {}, written |-> {},
   parsed |-> 0, failed |-> 0, stoppedAt |-> 0]

\* the head of an iteration: the loop ends after the last email; otherwise
\* getShouldStopParsing() is read, and the loop breaks or the email's
\* extraction begins
FpCheck ==
  /\ forceParse.pc = "check"
  /\ LET i == forceParse.i
     IN  IF i > forceParse.n
           THEN forceParse' = [forceParse EXCEPT !.pc = "done"]
           ELSE IF shouldStopParsing
             THEN forceParse' = [forceParse EXCEPT !.reads[i] = @ + 1,
                                                   !.stoppedAt = i, !.pc = "done"]
             ELSE forceParse' = [forceParse EXCEPT !.reads[i] = @ + 1,
                                                   !.started = @ \cup {i},
                                                   !.pc = "extract"]
  /\ UNCHANGED <<dataVars, routeVars, jobVars, stopVars, passVars, rfVars, exVars,
                 classifier, confPair, parseCalls, settingsStore, entryPasses, archive,
                 storeOps, lazyLoad>>

\* a faulty variant: the flag is read again when the extraction resolves, and
\* the loop breaks without writing the result
FpExtract_StopAbandons ==
  /\ forceParse.pc = "extract"
  /\ IF shouldStopParsing
       THEN forceParse' = [forceParse EXCEPT !.stoppedAt = forceParse.i, !.pc = "done"]
       ELSE forceParse' = [forceParse EXCEPT !.pc = "update"]
  /\ UNCHANGED <<dataVars, routeVars, jobVars, stopVars, passVars, rfVars, exVars,
                 classifier, confPair, parseCalls, settingsStore, entryPasses, archive,
                 storeOps, lazyLoad>>

\* `await parseEmailWithAI(emailToProcess, settings, true)` resolves (the call
\* never raises); the flag is not read
FpExtract ==
  /\ forceParse.pc = "extract"
  /\ forceParse' = [forceParse EXCEPT
                      !.finishedUnderStop = IF shouldStopParsing
                                              THEN @ \cup {forceParse.i} ELSE @,
                      !.pc = "update"]
  /\ UNCHANGED <<dataVars, routeVars, jobVars, stopVars, passVars, rfVars, exVars,
                 classifier, confPair, parseCalls, settingsStore, entryPasses, archive,
                 storeOps, lazyLoad>>

\* `await updateEmail(email.id, ...)`: the email is updated and counted as
\* parsed, or was deleted meanwhile (null) and is counted as failed
FpUpdate ==
  /\ forceParse.pc = "update"
  /\ \E found \in BOOLEAN :
       forceParse' = [forceParse EXCEPT
                        !.updateCalls = @ \cup {forceParse.i},
                        !.written = IF found THEN @ \cup {forceParse.i} ELSE @,
                        !.parsed = IF found THEN @ + 1 ELSE @,
                        !.failed = IF found THEN @ ELSE @ + 1,
                        !.i = @ + 1,
                        !.pc = "check"]
  /\ UNCHANGED <<dataVars, routeVars, jobVars, stopVars, passVars, rfVars, exVars,
                 classifier, confPair, parseCalls, settingsStore, entryPasses, archive,
                 storeOps, lazyLoad>>

FpStep == FpCheck \/ FpExtract \/ FpUpdate

-----------------------------------------------------------------------------
(* Data-store mutations: rules and emails in memory and in their files *)

\* the ids generateUniqueId hands out, and what a slot of a list holds:
\* nothing, the record as added, or the record after an update
StoreIds == 1..MaxStoreIds
StoreSlots == {"absent", "added", "updated"}

\* findIndex found no record with the id: null / false, nothing is saved
DsNotFound(op) ==
  storeOps' = [storeOps EXCEPT !.op = op, !.saveFailed = FALSE, !.reported = "notFound",
                               !.before = [rules |-> storeOps.rules,
                                           emails |-> storeOps.emails]]

\* the rules array is changed, then saveRulesToFile(rules) in a try/catch
\* that throws 'Failed to persist ...'
DsRuleMutation(op, after) ==
  \E saveOk \in BOOLEAN :
    storeOps' = [storeOps EXCEPT
                   !.rules = after,
                   !.rulesFile = IF saveOk THEN after ELSE @,
                   !.op = op,
                   !.saveFailed = ~saveOk,
                   !.reported = IF saveOk THEN "ok" ELSE "failed",
                   !.before = [rules |-> storeOps.rules, emails |-> storeOps.emails]]

\* the emails array is changed, then saveEmailsToFile(emails) in a try/catch
\* that logs and goes on ("Don't throw error for email saving")
DsEmailMutation(op, after) ==
  \E saveOk \in BOOLEAN :
    storeOps' = [storeOps EXCEPT
                   !.emails = after,
                   !.emailsFile = IF saveOk THEN after ELSE @,
                   !.op = op,
                   !.saveFailed = ~saveOk,
                   !.reported = "ok",
                   !.before = [rules |-> storeOps.rules, emails |-> storeOps.emails]]

DsAddRule(id) ==
  /\ storeOps.rules[id] = "absent"
  /\ DsRuleMutation("addRule", [storeOps.rules EXCEPT ![id] = "added"])
  /\ UNCHANGED <<dataVars, routeVars, jobVars, stopVars, passVars, rfVars, exVars,
                 classifier, confPair, parseCalls, settingsStore, entryPasses, archive,
                 forceParse, lazyLoad>>

DsUpdateRule(id) ==
  /\ IF storeOps.rules[id] = "absent"
       THEN DsNotFound("updateRule")
       ELSE DsRuleMutation("updateRule", [storeOps.rules EXCEPT ![id] = "updated"])
  /\ UNCHANGED <<dataVars, routeVars, jobVars, stopVars, passVars, rfVars, exVars,
                 classifier, confPair, parseCalls, settingsStore, entryPasses, archive,
                 forceParse, lazyLoad>>

DsDeleteRule(id) ==
  /\ IF storeOps.rules[id] = "absent"
       THEN DsNotFound("deleteRule")
       ELSE DsRuleMutation("deleteRule", [storeOps.rules EXCEPT ![id] = "absent"])
  /\ UNCHANGED <<dataVars, routeVars, jobVars, stopVars, passVars, rfVars, exVars,
                 classifier, confPair, parseCalls, settingsStore, entryPasses, archive,
                 forceParse, lazyLoad>>

DsAddEmail(id) ==
  /\ storeOps.emails[id] = "absent"
  /\ DsEmailMutation("addEmail", [storeOps.emails EXCEPT ![id] = "added"])
  /\ UNCHANGED <<dataVars, routeVars, jobVars, stopVars, passVars, rfVars, exVars,
                 classifier, confPair, parseCalls, settingsStore, entryPasses, archive,
                 forceParse, lazyLoad>>

DsUpdateEmail(id) ==
  /\ IF storeOps.emails[id] = "absent"
       THEN DsNotFound("updateEmail")
       ELSE DsEmailMutation("updateEmail", [storeOps.emails EXCEPT ![id] = "updated"])
  /\ UNCHANGED <<dataVars, routeVars, jobVars, stopVars, passVars, rfVars, exVars,
                 classifier, confPair, parseCalls, settingsStore, entryPasses, archive,
                 forceParse, lazyLoad>>

DsDeleteEmail(id) ==
  /\ IF storeOps.emails[id] = "absent"
       THEN DsNotFound("deleteEmail")
       ELSE DsEmailMutation("deleteEmail", [storeOps.emails EXCEPT ![id] = "absent"])
  /\ UNCHANGED <<dataVars, routeVars, jobVars, stopVars, passVars, rfVars, exVars,
                 classifier, confPair, parseCalls, settingsStore, entryPasses, archive,
                 forceParse, lazyLoad>>

DsStep ==
  \E id \in StoreIds :
    \/ DsAddRule(id) \/ DsUpdateRule(id) \/ DsDeleteRule(id)
    \/ DsAddEmail(id) \/ DsUpdateEmail(id) \/ DsDeleteEmail(id)

-----------------------------------------------------------------------------
(* Data store: concurrent getEmails / addEmail calls around the first load *)

\* the calls in flight; call c of kind addEmail adds the email named c
\* (0 names an email stored by an earlier run)
CallIds == 1..MaxCalls

\* the array objects the `emails` variable can refer to: the initial [] (0)
\* and the array that the load of call c returned (c)
ArrayIds == 0..MaxCalls

\* emails.push(newEmail) on the array `emails` refers to
LlPush(ll, c) == [ll EXCEPT !.arrays[ll.emails] = @ \cup {c}]

\* a call enters getEmails.  Loaded already: getEmails returns, and addEmail
\* pushes its email.  Not loaded: the call suspends in the load.
LlEnter(c) ==
  /\ lazyLoad.calls[c].pc = "start"
  /\ lazyLoad' =
       IF ~lazyLoad.emailsLoaded
         THEN [lazyLoad EXCEPT !.calls[c].pc = "load"]
         ELSE IF lazyLoad.calls[c].kind = "getEmails"
           THEN [lazyLoad EXCEPT !.calls[c].pc = "done"]
           ELSE [LlPush(lazyLoad, c) EXCEPT !.calls[c].pc = "save"]
  /\ UNCHANGED <<dataVars, routeVars, jobVars, stopVars, passVars, rfVars, exVars,
                 classifier, confPair, parseCalls, settingsStore, entryPasses, archive,
                 forceParse, storeOps>>

\* loadEmailsFromFile reads emails.json: the file as it is now ([] when
\* there is none)
LlRead(c) ==
  /\ lazyLoad.calls[c].pc = "load"
  /\ lazyLoad' = [lazyLoad EXCEPT !.calls[c].loaded = lazyLoad.file,
                                  !.calls[c].pc = "assign"]
  /\ UNCHANGED <<dataVars, routeVars, jobVars, stopVars, passVars, rfVars, exVars,
                 classifier, confPair, parseCalls, settingsStore, entryPasses, archive,
                 forceParse, storeOps>>

\* getEmails resumes: `emails = <the loaded array>; emailsLoaded = true`,
\* then it returns, and addEmail pushes its email
LlAssign(c) ==
  /\ lazyLoad.calls[c].pc = "assign"
  /\ LET assigned == [lazyLoad EXCEPT !.arrays[c] = lazyLoad.calls[c].loaded,
                                      !.emails = c,
                                      !.emailsLoaded = TRUE]
     IN  lazyLoad' =
           IF lazyLoad.calls[c].kind = "getEmails"
             THEN [assigned EXCEPT !.calls[c].pc = "done"]
             ELSE [LlPush(assigned, c) EXCEPT !.calls[c].pc = "save"]
  /\ UNCHANGED <<dataVars, routeVars, jobVars, stopVars, passVars, rfVars, exVars,
                 classifier, confPair, parseCalls, settingsStore, entryPasses, archive,
                 forceParse, storeOps>>

\* addEmail calls saveEmailsToFile(emails) with the array `emails` refers to
LlSaveCall(c) ==
  /\ lazyLoad.calls[c].pc = "save"
  /\ lazyLoad' = [lazyLoad EXCEPT !.calls[c].ref = lazyLoad.emails,
                                  !.calls[c].pc = "write"]
  /\ UNCHANGED <<dataVars, routeVars, jobVars, stopVars, passVars, rfVars, exVars,
                 classifier, confPair, parseCalls, settingsStore, entryPasses, archive,
                 forceParse, storeOps>>

\* fs.writeFile(EMAILS_FILE, JSON.stringify(emails)) succeeds or fails (the
\* failure is logged); addEmail returns newEmail
LlWrite(c) ==
  /\ lazyLoad.calls[c].pc = "write"
  /\ \E saveOk \in BOOLEAN :
       lazyLoad' = [lazyLoad EXCEPT
                      !.file = IF saveOk THEN lazyLoad.arrays[lazyLoad.calls[c].ref] ELSE @,
                      !.calls[c].pc = "done"]
  /\ UNCHANGED <<dataVars, routeVars, jobVars, stopVars, passVars, rfVars, exVars,
                 classifier, confPair, parseCalls, settingsStore, entryPasses, archive,
                 forceParse, storeOps>>

LlStep ==
  \E c \in CallIds : LlEnter(c) \/ LlRead(c) \/ LlAssign(c) \/ LlSaveCall(c) \/ LlWrite(c)

-----------------------------------------------------------------------------
(* Idle values of each component, for the specifications that leave it alone *)

DataIdle == rules = <<>> /\ emails = <<>>

RouteIdle ==
  /\ rtEmail = [from |-> <<"c">>, senderEmail |-> <<"c">>]
  /\ rtOptimized = FALSE
  /\ rtResult = "none"

JobsIdle ==
  /\ jobs = [j \in JobIds |-> NoJob]
  /\ currentJob = NoJob
  /\ jobIdCounter = 0
  /\ jpc = [j \in JobIds |-> "none"]
  /\ clock = 1

StopIdle ==
  /\ shouldStop = FALSE
  /\ shouldStopParsing = FALSE
  /\ stopAwaiting = 0
  /\ stopTimers = 0
  /\ stopCount = 0

PassIdle ==
  /\ passPc = "idle"
  /\ passSettings = NoSettingsMaps
  /\ mailbox = <<>>
  /\ messageCount = 0
  /\ processedCount = 0
  /\ errors = <<>>
  /\ lockHeld = FALSE
  /\ session = "none"
  /\ passError = FALSE
  /\ passResult = "none"
  /\ threw = {}
  /\ classifyCalls = {}
  /\ routes = <<>>

RefetchIdle ==
  /\ rfPc = "idle"
  /\ rfLock = FALSE
  /\ rfSession = "none"
  /\ rfError = FALSE
  /\ rfResult = "none"

ExIdle ==
  /\ exPc = "idle"
  /\ exIn = "none"
  /\ exLocals = NoLocals
  /\ exOut = NoResult

ReqIdle ==
  /\ forceParse = "idle"
  /\ storeOps = "idle"
  /\ lazyLoad = "idle"

AuxIdle ==
  /\ ReqIdle
  /\ classifier = "idle"
  /\ confPair = "idle"
  /\ parseCalls = <<>>
  /\ settingsStore = "idle"
  /\ entryPasses = "idle"
  /\ archive = "idle"

-----------------------------------------------------------------------------
(* The rule matcher on every sender and rule list *)

InitRoute ==
  /\ rules \in SeqsUpTo(Rules, MaxRules)
  /\ emails = <<>>
  /\ rtEmail \in { [from |-> s, senderEmail |-> s] : s \in Senders }
  /\ rtOptimized \in BOOLEAN
  /\ rtResult = "none"
  /\ JobsIdle /\ StopIdle /\ PassIdle /\ RefetchIdle /\ ExIdle /\ AuxIdle

\* checkWhitelistStatus(email, settings), plain or with the pre-loaded maps
RouteCall ==
  /\ rtResult = "none"
  /\ rtResult' = checkWhitelistStatus(
                   rtEmail,
                   IF rtOptimized THEN PreloadRules(rules) ELSE NoSettingsMaps,
                   rules)
  /\ UNCHANGED <<rtEmail, rtOptimized, dataVars, jobVars, stopVars, passVars, rfVars, exVars, auxVars>>

NextRoute == RouteCall

SpecRoute == InitRoute /\ [][NextRoute]_vars

-----------------------------------------------------------------------------
(* The job queue under concurrent submissions *)

InitJobs == DataIdle /\ RouteIdle /\ JobsIdle /\ StopIdle /\ PassIdle /\ RefetchIdle /\ ExIdle /\ AuxIdle

NextJobs ==
  \/ \E type \in RequestTypes : PostJobs(type)
  \/ \E j \in JobIds : JobStep(j)
  \/ \E j \in JobIds : \E call \in ProgressCalls : JobProgress(j, call)

SpecJobs == InitJobs /\ [][NextJobs]_vars

\* the job queue with room for MaxRunJobs jobs
RunIds == 1..MaxRunJobs

InitRun ==
  /\ jobs = [j \in RunIds |-> NoJob]
  /\ currentJob = NoJob
  /\ jobIdCounter = 0
  /\ jpc = [j \in RunIds |-> "none"]
  /\ clock = 1
  /\ DataIdle /\ RouteIdle /\ StopIdle /\ PassIdle /\ RefetchIdle /\ ExIdle /\ AuxIdle

NextRun ==
  \/ \E type \in RequestTypes : PostJobs(type)
  \/ \E j \in RunIds : JobStep(j)
  \/ \E j \in RunIds : \E call \in ProgressCalls : JobProgress(j, call)

SpecRun == InitRun /\ [][NextRun]_vars

\* every started processJob call keeps running; the pipeline call ends
FairJobs == SpecRun /\ \A j \in RunIds : WF_vars(JobStep(j))

-----------------------------------------------------------------------------
(* Mailbox passes, with stop requests arriving while they run *)

\* the active whitelist and blacklist rules the passes meet
WL(p) == [type |-> "whitelist", pattern |-> p, active |-> TRUE]
BL(p) == [type |-> "blacklist", pattern |-> p, active |-> TRUE]

\* the rule tables the passes run against
PassRuleLists ==
  { <<>>,
    <<BL(<<"b">>)>>,
    <<BL(<<"a", "b">>)>>,
    <<WL(<<"a", "b">>), BL(<<"b">>)>> }

\* the senders of the unseen messages: a plain address, a WeTransfer address
\* and an address no rule mentions
PassSenders == { <<"a", "b">>, <<"w", "b">>, <<"c">> }

InitPass ==
  /\ rules \in PassRuleLists
  /\ emails = <<>>
  /\ mailbox \in SeqsUpTo([from : PassSenders], MaxMsgs)
  /\ passSettings \in {NoSettingsMaps, PreloadRules(rules)}
  /\ passPc = "idle"
  /\ messageCount = 0
  /\ processedCount = 0
  /\ errors = <<>>
  /\ lockHeld = FALSE
  /\ session = "none"
  /\ passError = FALSE
  /\ passResult = "none"
  /\ threw = {}
  /\ classifyCalls = {}
  /\ routes = <<>>
  /\ RouteIdle /\ JobsIdle /\ StopIdle /\ RefetchIdle /\ ExIdle /\ AuxIdle

NextPass == PassStep \/ StopStep

SpecPass == InitPass /\ [][NextPass]_vars

\* stop requests arriving while a pass runs over a mailbox with no rules
InitStop == InitPass /\ rules = <<>>

SpecStop == InitStop /\ [][NextPass]_vars

\* a suspended stop handler resumes and a scheduled timer fires
FairStop == SpecStop /\ WF_vars(StopSchedule) /\ WF_vars(StopTimerFire)

\* a pass and a re-fetch, each with its own IMAP client
NextMailbox == PassStep \/ RefetchStep

SpecMailbox == InitPass /\ [][NextMailbox]_vars

-----------------------------------------------------------------------------
(* The extractor on every email, settings and collaborator outcome *)

ExEmails ==
  [from        : { <<"a", "b">>, <<"w", "b">> },
   senderEmail : { <<"a", "b">>, <<"w", "b">> },
   parsedType  : {"order", "estimate", "none"},
   attachments : 0..1]

ExSettings == [aiProvider : {"google", "ollama", "other"}, googleApiKey : BOOLEAN]

InitExtract ==
  /\ exIn \in [email : { e \in ExEmails : e.senderEmail = extractEmailAddress(e.from) },
                settings : ExSettings, saveFiles : BOOLEAN]
  /\ exPc = "idle"
  /\ exLocals = NoLocals
  /\ exOut = NoResult
  /\ DataIdle /\ RouteIdle /\ JobsIdle /\ StopIdle /\ PassIdle /\ RefetchIdle /\ AuxIdle

NextExtract == ExStep

SpecExtract == InitExtract /\ [][NextExtract]_vars

-----------------------------------------------------------------------------
(* The classifier on every email, keyword score, setting and AI outcome *)

ClSettings ==
  [useAiProcessing : BOOLEAN, aiProvider : {"google", "ollama", "other"},
   googleApiKey : BOOLEAN]

InitClassify ==
  /\ classifier \in
       [pc            : {"idle"},
        email         : { [from |-> s, senderEmail |-> extractEmailAddress(s)] :
                            s \in { <<"a", "b">>, <<"w", "b">> } },
        settings      : ClSettings,
        orderScore    : 0..MaxHits,
        estimateScore : 0..MaxHits,
        throwsAt      : ClassThrows,
        keywordResult : {NoClassification},
        aiResult      : {NoClassification},
        raised        : {"none"},
        aiCalls       : {0},
        result        : {NoClassification}]
  /\ confPair = "idle"
  /\ parseCalls = <<>>
  /\ settingsStore = "idle"
  /\ entryPasses = "idle"
  /\ archive = "idle"
  /\ DataIdle /\ RouteIdle /\ JobsIdle /\ StopIdle /\ PassIdle /\ RefetchIdle /\ ExIdle
  /\ ReqIdle

NextClassify == ClStep

SpecClassify == InitClassify /\ [][NextClassify]_vars

-----------------------------------------------------------------------------
(* parseAIParsingResponse on every pair of replies *)

InitConfidence ==
  /\ confPair \in
       [pc : {"idle"}, expectedType : {"order", "estimate"},
        a : AiReplies, b : AiReplies,
        threwA : {FALSE}, confA : {0}, threwB : {FALSE}, confB : {0}]
  /\ classifier = "idle"
  /\ parseCalls = <<>>
  /\ settingsStore = "idle"
  /\ entryPasses = "idle"
  /\ archive = "idle"
  /\ DataIdle /\ RouteIdle /\ JobsIdle /\ StopIdle /\ PassIdle /\ RefetchIdle /\ ExIdle
  /\ ReqIdle

NextConfidence == ConfCompute

SpecConfidence == InitConfidence /\ [][NextConfidence]_vars

-----------------------------------------------------------------------------
(* The settings routes, from an empty cache and an empty or written file *)

InitSettings ==
  /\ settingsStore \in
       [pc : {"idle"}, cache : {0}, file : {0, 1}, posted : {0}, previous : {0},
        got : {0}, response : {"none"}]
  /\ classifier = "idle"
  /\ confPair = "idle"
  /\ parseCalls = <<>>
  /\ entryPasses = "idle"
  /\ archive = "idle"
  /\ DataIdle /\ RouteIdle /\ JobsIdle /\ StopIdle /\ PassIdle /\ RefetchIdle /\ ExIdle
  /\ ReqIdle

NextSettings == SetStep

SpecSettings == InitSettings /\ [][NextSettings]_vars

-----------------------------------------------------------------------------
(* Claims about the settings *)

\* C15: settings returned by getSettings have been written to the settings
\* file; when saveSettingsToFile fails during POST /api/settings, the cache
\* still holds the settings it held before the request.
C15_DurableBeforeEffective ==
  /\ (settingsStore.pc = "idle" /\ settingsStore.cache # 0)
       => settingsStore.cache = settingsStore.file
  /\ (settingsStore.pc = "idle" /\ settingsStore.response = "error")
       => settingsStore.cache = settingsStore.previous

-----------------------------------------------------------------------------
(* Passes started through the three entry points *)

InitEntries ==
  /\ entryPasses = [e \in EntryPoints |-> [pc |-> "idle", passes |-> 0]]
  /\ classifier = "idle"
  /\ confPair = "idle"
  /\ parseCalls = <<>>
  /\ settingsStore = "idle"
  /\ archive = "idle"
  /\ DataIdle /\ RouteIdle /\ JobsIdle /\ StopIdle /\ PassIdle /\ RefetchIdle /\ ExIdle
  /\ ReqIdle

NextEntries == EntryStep

SpecEntries == InitEntries /\ [][NextEntries]_vars

-----------------------------------------------------------------------------
(* Claims about the entry points of a pass *)

\* C16: at most one ingestion pass is in flight at any instant, and at most
\* one holds the INBOX lock, whichever entry point started it.
C16_OnePassInFlight ==
  /\ Cardinality({ e \in EntryPoints : entryPasses[e].pc # "idle" }) <= 1
  /\ Cardinality({ e \in EntryPoints : entryPasses[e].pc = "locked" }) <= 1

-----------------------------------------------------------------------------
(* Requests on a store that passes have filled *)

\* what a pass stores for a message: inbox or unsorted, processed
PassStored(n, fromField, classification) ==
  StoredEmail(n, fromField, [classification |-> classification, status |-> "processed"])

InitStore ==
  /\ rules \in { <<>>, <<BL(<<"b">>)>>, <<WL(<<"a", "b">>)>>, <<WL(<<"c">>), BL(<<"w">>)>> }
  /\ \E s1 \in PassSenders, s2 \in PassSenders, c1 \in {"inbox", "unsorted"},
        c2 \in {"inbox", "unsorted"} :
       emails = << PassStored(1, s1, c1), PassStored(2, s2, c2) >>
  /\ RouteIdle /\ JobsIdle /\ StopIdle /\ PassIdle /\ RefetchIdle /\ ExIdle /\ AuxIdle

NextStore == StoreStep

SpecStore == InitStore /\ [][NextStore]_vars

-----------------------------------------------------------------------------
(* A force-parse request over 1..MaxForceEmails emails, with stop requests *)

InitForce ==
  /\ forceParse \in { ForceParseBegin(n) : n \in 1..MaxForceEmails }
  /\ storeOps = "idle"
  /\ lazyLoad = "idle"
  /\ classifier = "idle"
  /\ confPair = "idle"
  /\ parseCalls = <<>>
  /\ settingsStore = "idle"
  /\ entryPasses = "idle"
  /\ archive = "idle"
  /\ DataIdle /\ RouteIdle /\ JobsIdle /\ StopIdle /\ PassIdle /\ RefetchIdle /\ ExIdle

NextForce == FpStep \/ StopStep

SpecForce == InitForce /\ [][NextForce]_vars

-----------------------------------------------------------------------------
(* Claims about the force-parse route *)

\* C21: the force-parse loop reads the stop flag once per email, before the
\* email's extraction; a started email has updateEmail called for its result
\* whatever the flag does meanwhile; no email from the first check that sees
\* the flag set onwards is extracted; and the returned counts cover every
\* email started before the stop.
C21_StopBetweenEmails ==
  LET fp == forceParse
  IN  /\ \A k \in 1..fp.n :
           /\ fp.reads[k] <= 1
           /\ k \in fp.started => fp.reads[k] = 1
      /\ fp.stoppedAt # 0 =>
           \A k \in fp.stoppedAt..fp.n :
             k \notin fp.started /\ (k > fp.stoppedAt => fp.reads[k] = 0)
      /\ fp.pc = "done" =>
           /\ fp.updateCalls = fp.started
           /\ fp.parsed = Cardinality(fp.written)
           /\ fp.parsed + fp.failed = Cardinality(fp.started)
           /\ fp.stoppedAt # 0 => fp.started = 1..(fp.stoppedAt - 1)

\* the flag was raised while the first email was being extracted; its result
\* was written and counted, and the second email was not started
C21_Witness ==
  /\ forceParse.pc = "done"
  /\ forceParse.n = MaxForceEmails
  /\ forceParse.stoppedAt = 2
  /\ forceParse.finishedUnderStop = {1}
  /\ forceParse.written = {1}
  /\ forceParse.parsed = 1

-----------------------------------------------------------------------------
(* Rule and email mutations on a loaded data store whose file saves may fail *)

InitMutations ==
  /\ storeOps = [rules      |-> [id \in StoreIds |-> "absent"],
                 emails     |-> [id \in StoreIds |-> "absent"],
                 rulesFile  |-> [id \in StoreIds |-> "absent"],
                 emailsFile |-> [id \in StoreIds |-> "absent"],
                 op |-> "none", saveFailed |-> FALSE, reported |-> "none",
                 before |-> [rules  |-> [id \in StoreIds |-> "absent"],
                             emails |-> [id \in StoreIds |-> "absent"]]]
  /\ forceParse = "idle"
  /\ lazyLoad = "idle"
  /\ classifier = "idle"
  /\ confPair = "idle"
  /\ parseCalls = <<>>
  /\ settingsStore = "idle"
  /\ entryPasses = "idle"
  /\ archive = "idle"
  /\ DataIdle /\ RouteIdle /\ JobsIdle /\ StopIdle /\ PassIdle /\ RefetchIdle /\ ExIdle

NextMutations == DsStep

SpecMutations == InitMutations /\ [][NextMutations]_vars

-----------------------------------------------------------------------------
(* MaxCalls concurrent getEmails / addEmail calls on a store not yet loaded *)

InitLazyLoad ==
  /\ \E kinds \in [CallIds -> {"getEmails", "addEmail"}], file \in {{}, {0}} :
       lazyLoad = [arrays       |-> [a \in ArrayIds |-> {}],
                   emails       |-> 0,
                   emailsLoaded |-> FALSE,
                   file         |-> file,
                   calls        |-> [c \in CallIds |->
                                      [kind |-> kinds[c], pc |-> "start",
                                       loaded |-> {}, ref |-> 0]]]
  /\ forceParse = "idle"
  /\ storeOps = "idle"
  /\ classifier = "idle"
  /\ confPair = "idle"
  /\ parseCalls = <<>>
  /\ settingsStore = "idle"
  /\ entryPasses = "idle"
  /\ archive = "idle"
  /\ DataIdle /\ RouteIdle /\ JobsIdle /\ StopIdle /\ PassIdle /\ RefetchIdle /\ ExIdle

NextLazyLoad == LlStep

SpecLazyLoad == InitLazyLoad /\ [][NextLazyLoad]_vars

-----------------------------------------------------------------------------
(* Claims about the data store *)

\* C27: once the concurrent getEmails / addEmail calls that met an unloaded
\* store have all finished, every email for which addEmail returned is in the
\* in-memory email list.
C27_NoEmailLostByLazyLoad ==
  (\A c \in CallIds : lazyLoad.calls[c].pc = "done") =>
    \A c \in CallIds :
      lazyLoad.calls[c].kind = "addEmail" => c \in lazyLoad.arrays[lazyLoad.emails]

\* C24: when the file save of addRule, updateRule, deleteRule, addEmail,
\* updateEmail or deleteEmail fails, the operation reports failure and the
\* rules and emails in memory are what they were before the operation.
C24_MutationsAtomic ==
  storeOps.saveFailed =>
    /\ storeOps.reported = "failed"
    /\ storeOps.rules = storeOps.before.rules
    /\ storeOps.emails = storeOps.before.emails

-----------------------------------------------------------------------------
(* Claims about stored emails *)

\* C14: no stored email has classification blacklist, and no email with
\* classification blacklist is handed to parseEmailWithAI, whatever PATCH,
\* bulk-update, force-parse, auto-parse and reclassify requests arrive.
C14_NoBlacklistKept ==
  /\ \A n \in 1..Len(emails) : emails[n].classification # "blacklist"
  /\ \A k \in 1..Len(parseCalls) : parseCalls[k].classification # "blacklist"

-----------------------------------------------------------------------------
(* saveEmailWithFiles on emails with 0..MaxAttachments attachments *)

InitArchive ==
  /\ archive \in
       [pc : {"mkdir"}, attachments : 0..MaxAttachments, next : {1},
        attempted : {{}}, failedStep : {"none"},
        attemptedAtts : {{}}, failedAtts : {{}}, savedFiles : {{}},
        result : {"none"}]
  /\ classifier = "idle"
  /\ confPair = "idle"
  /\ parseCalls = <<>>
  /\ settingsStore = "idle"
  /\ entryPasses = "idle"
  /\ DataIdle /\ RouteIdle /\ JobsIdle /\ StopIdle /\ PassIdle /\ RefetchIdle /\ ExIdle
  /\ ReqIdle

NextArchive == ArStep

SpecArchive == InitArchive /\ [][NextArchive]_vars

-----------------------------------------------------------------------------
(* Claims about the file archiver *)

\* C17 as stated: whatever write fails (HTML, JSON metadata, one attachment),
\* every other write is still attempted and saveEmailWithFiles returns.
C17_EveryWriteIsolated ==
  archive.pc = "done" =>
    /\ archive.result = "returned"
    /\ {"html", "json"} \subseteq archive.attempted
    /\ archive.attemptedAtts = 1..archive.attachments

\* C17: only the attachment writes are isolated.  A failed attachment write
\* leaves the other attachments attempted and the call returns the files
\* written.  A failure of the folder creation, of the HTML write, of the JSON
\* metadata write or of the attachments folder creation makes the call throw
\* with no later write attempted.
C17_AttachmentsIsolated ==
  archive.pc = "done" =>
    /\ archive.failedStep = "none"
         => /\ archive.result = "returned"
            /\ {"html", "json"} \subseteq archive.attempted
            /\ archive.attemptedAtts = 1..archive.attachments
            /\ archive.savedFiles \cap archive.failedAtts = {}
    /\ archive.failedStep # "none"
         => /\ archive.result = "threw"
            /\ archive.attemptedAtts = {}
            /\ archive.failedStep = "mkdir" => archive.attempted = {"mkdir"}
            /\ archive.failedStep = "html" => archive.attempted = {"mkdir", "html"}
            /\ archive.failedStep = "json" => archive.attempted = {"mkdir", "html", "json"}

C17_Witness ==
  /\ archive.pc = "done"
  /\ archive.attachments = 3
  /\ archive.failedAtts = {1}
  /\ archive.savedFiles = {2, 3}
  /\ archive.result = "returned"

-----------------------------------------------------------------------------
(* The job queue after KeepJobs jobs have run one after the other *)

HistoryIds == 1..(KeepJobs + MaxNewJobs)

\* job j of the history: started at time j, completed or failed
PastJob(j, failed) ==
  IF failed
    THEN [NoJob EXCEPT !.id = j, !.type = "email-processing", !.status = "failed",
                       !.startTime = j, !.error = "Authentication failed"]
    ELSE [NoJob EXCEPT !.id = j, !.type = "email-processing", !.status = "completed",
                       !.startTime = j, !.progress = 100, !.result = "result"]

InitHistory ==
  /\ \E failed \in { {}, {1}, {KeepJobs}, {1, 2} } :
       jobs = [j \in HistoryIds |->
                 IF j <= KeepJobs THEN PastJob(j, j \in failed) ELSE NoJob]
  /\ currentJob = NoJob
  /\ jobIdCounter = KeepJobs
  /\ jpc = [j \in HistoryIds |-> IF j <= KeepJobs THEN "done" ELSE "none"]
  /\ clock = KeepJobs + 1
  /\ DataIdle /\ RouteIdle /\ StopIdle /\ PassIdle /\ RefetchIdle /\ ExIdle /\ AuxIdle

NextHistory ==
  \/ \E type \in RequestTypes : PostJobs(type)
  \/ \E j \in HistoryIds : JobStep(j)
  \/ \E j \in HistoryIds : \E call \in ProgressCalls : JobProgress(j, call)

SpecHistory == InitHistory /\ [][NextHistory]_vars

-----------------------------------------------------------------------------
(* Claims about the retention of finished jobs *)

FinishedJobs(js) == { j \in DOMAIN js : IsFinished(js[j]) }

\* what holds of the step in which cleanupJobs runs: at most KeepJobs finished
\* jobs remain, every finished job kept started no earlier than any job
\* evicted, and no pending or running job is evicted
CleanupKeepsRecent ==
  jobIdCounter' > jobIdCounter =>
    /\ Cardinality(FinishedJobs(jobs')) <= KeepJobs
    /\ \A e \in FinishedJobs(jobs) \ FinishedJobs(jobs') :
         \A r \in FinishedJobs(jobs') : jobs[r].startTime >= jobs[e].startTime
    /\ \A j \in DOMAIN jobs :
         jobs[j].status \in {"pending", "running"} => jobs'[j] = jobs[j]
    /\ jobs'[jobIdCounter'].status = "pending"

\* C18 as stated: after cleanupJobs runs at most 10 finished jobs remain, the
\* 10 most recently started, no pending or running job is evicted; and at all
\* times the number of retained completed/failed jobs is at most the cap.
C18_BoundedByCap ==
  /\ [][CleanupKeepsRecent]_vars
  /\ [](Cardinality(FinishedJobs(jobs)) <= KeepJobs)

\* C18: after cleanupJobs runs at most 10 finished jobs remain, the 10 most
\* recently started, and no pending or running job is evicted.  cleanupJobs
\* runs only when a job is submitted: a job is deleted only in that step, and
\* between submissions the finished jobs exceed the cap by the jobs that
\* finished since.
C18_CleanupOnSubmit ==
  /\ [][CleanupKeepsRecent]_vars
  /\ [][ (\E j \in DOMAIN jobs : jobs[j].status # "absent" /\ jobs'[j].status = "absent")
           => jobIdCounter' > jobIdCounter ]_vars
  /\ [][ Cardinality(FinishedJobs(jobs')) > KeepJobs
           => (/\ jobIdCounter' = jobIdCounter
               /\ Cardinality(FinishedJobs(jobs')) <= Cardinality(FinishedJobs(jobs)) + 1) ]_vars

\* the eleventh job finished, a twelfth was submitted and job 1 was evicted
C18_Witness ==
  /\ jobIdCounter = KeepJobs + 2
  /\ jobs[1].status = "absent" /\ jobs[2].status = "failed"
  /\ jobs[KeepJobs + 1].status \in {"completed", "failed"}
  /\ jobs[KeepJobs + 2].status = "pending"
  /\ Cardinality(FinishedJobs(jobs)) = KeepJobs

-----------------------------------------------------------------------------
(* Claims about the classifier *)

\* C11 as stated: whenever a stage of classifyEmail raised (bulk-transfer
\* check, keyword scoring, AI call, AI reply parsing), the call returns type
\* other with confidence 0.
C11_AnyFailureGivesOther ==
  (classifier.pc = "done" /\ classifier.raised # "none")
    => classifier.result = ClassificationFailed

\* C11: classifyEmail always returns a classification.  A failure of the
\* bulk-transfer check or of keyword scoring gives type other, confidence 0.
\* A failed AI call counts as an AI result of other/0 and the keyword-stage
\* result is returned.  An AI reply that does not parse is replaced by the
\* guess from its words (confidence 0.6 or 0.3), and the call returns that
\* guess if it is more confident than the keyword-stage result, else the
\* keyword-stage result.
C11_FailureHandling ==
  classifier.pc = "done" =>
    /\ classifier.result.type \in {"order", "estimate", "other"}
    /\ classifier.raised \in {"bulkCheck", "keywords"}
         => classifier.result = ClassificationFailed
    /\ classifier.raised = "ai"
         => /\ classifier.aiResult = ClassificationFailed
            /\ classifier.result = classifier.keywordResult
            /\ classifier.result.confidence >= 40
    /\ classifier.raised = "aiParse"
         => /\ classifier.aiResult.confidence \in {30, 60}
            /\ classifier.result =
                 IF classifier.aiResult.confidence > classifier.keywordResult.confidence
                   THEN classifier.aiResult ELSE classifier.keywordResult

C11_Witness ==
  /\ classifier.pc = "done"
  /\ classifier.raised = "ai"
  /\ classifier.aiCalls = 1
  /\ classifier.result = [type |-> "order", confidence |-> 60]

\* C20: classifyEmail calls the AI at most once, and only for a sender that is
\* not a WeTransfer sender, with a keyword-stage confidence of at most 0.7 and
\* with AI processing enabled; a WeTransfer sender gets order at 0.95 without
\* an AI call.
C20_AiCallOnlyWhenNeeded ==
  /\ classifier.aiCalls <= 1
  /\ classifier.aiCalls > 0 =>
       /\ ~isWeTransferEmail(classifier.email)
       /\ classifyByKeywords(classifier.orderScore, classifier.estimateScore).confidence <= 70
       /\ classifier.settings.useAiProcessing
  /\ (classifier.pc = "done" /\ isWeTransferEmail(classifier.email)
        /\ classifier.throwsAt # "bulkCheck")
       => /\ classifier.result = [type |-> "order", confidence |-> 95]
          /\ classifier.aiCalls = 0

C20_Witness ==
  /\ classifier.pc = "done"
  /\ classifier.aiCalls = 1
  /\ classifier.raised = "none"
  /\ classifier.keywordResult = [type |-> "order", confidence |-> 70]
  /\ classifier.result = [type |-> "estimate", confidence |-> 90]

-----------------------------------------------------------------------------
(* Claims about the extraction confidence *)

\* C13: for one target type and two replies that both pass validation, if the
\* required fields populated in reply B are a strict superset of those
\* populated in reply A, the confidence computed for B is at least the
\* confidence computed for A, whatever the description bonus of either.
C13_ConfidenceMonotone ==
  (/\ confPair.pc = "done"
   /\ ~confPair.threwA /\ ~confPair.threwB
   /\ PopulatedFields(confPair.a, confPair.expectedType)
        \subseteq PopulatedFields(confPair.b, confPair.expectedType)
   /\ PopulatedFields(confPair.a, confPair.expectedType)
        # PopulatedFields(confPair.b, confPair.expectedType))
    => confPair.confB >= confPair.confA

C13_Witness ==
  /\ confPair.pc = "done"
  /\ confPair.expectedType = "estimate"
  /\ ~confPair.threwA /\ ~confPair.threwB
  /\ PopulatedFields(confPair.a, "estimate") = {"items", "customerName"}
  /\ PopulatedFields(confPair.b, "estimate") = {"items", "customerName", "projectDescription"}
  /\ confPair.a.items = "described" /\ confPair.b.items = "plain"
  /\ confPair.confA = 80 /\ confPair.confB = 90

-----------------------------------------------------------------------------
(* Claims about the extractor *)

\* the fallback record of the call in progress
FallbackRecord ==
  [raised |-> FALSE, type |-> ExpectedType(exIn.email), data |-> "placeholder",
   confidence |-> 10, reasoning |-> exLocals.error, attachmentsSaved |-> 0,
   emailFiles |-> "undefined"]

\* C12 as stated: if the attachment re-fetch, the AI call, the reply parse or
\* the file archive fails, parseEmailWithAI returns the fallback record.
C12_AnyFailureGivesFallback ==
  (exPc = "done" /\ exLocals.failed # {})
    => (exOut = FallbackRecord /\ exLocals.error # "none")

\* C12: if the AI call or the reply parse fails, parseEmailWithAI returns the
\* fallback record (type of step 1, placeholder item, confidence 0.1, reasoning
\* with the error text, no attachments saved).  A failed re-fetch or file
\* archive alone does not: the call returns the parsed record with its
\* computed confidence, and no attachments saved when saveEmailWithFiles
\* failed.
C12_FallbackOnAiFailure ==
  /\ [](exPc = "done" =>
         /\ (exLocals.failed \cap {"aiCall", "parse"} # {})
              => /\ exOut = FallbackRecord
                 /\ exOut.reasoning \in {"aiCall", "parse"}
         /\ (exLocals.failed # {} /\ exLocals.failed \subseteq {"refetch", "archive"})
              => /\ exOut.data = "parsed"
                 /\ exOut.type = ExpectedType(exIn.email)
                 /\ exOut.confidence = exLocals.confidence
                 /\ exOut.confidence >= 50)
  /\ [][ (exPc = "save" /\ "archive" \in exLocals'.failed /\ exOut'.attachmentsSaved > 0)
           => exOut'.attachmentsSaved = exLocals.attachments ]_vars

C12_Witness ==
  /\ exPc = "done"
  /\ exLocals.failed = {"refetch", "archive"}
  /\ exOut.data = "parsed"
  /\ exOut.confidence = 95
  /\ exOut.attachmentsSaved = 0

\* C22: when the AI call and the reply parse succeed and a write of the file
\* archive fails, parseEmailWithAI returns the parsed data with its computed
\* confidence, no attachments saved and no emailFiles.
C22_ArchiveFailureNoFiles ==
  (exPc = "done" /\ "archive" \in exLocals.failed) =>
    /\ exOut.data = "parsed"
    /\ exOut.confidence = exLocals.confidence
    /\ exOut.attachmentsSaved = 0
    /\ exOut.emailFiles = "undefined"

\* C5: parseEmailWithAI never raises; whatever the re-fetch, the AI call,
\* the reply parse and the file save do, it resolves to a record whose type
\* is order or estimate and whose confidence lies between 0.1 and 0.95.
C5_NeverRaises ==
  exPc = "done" =>
    /\ ~exOut.raised
    /\ exOut.type \in {"order", "estimate"}
    /\ exOut.confidence >= 10 /\ exOut.confidence <= 95

\* a complete reply with described items was parsed: the sum 30 + 60 + 10 is
\* brought back to 95
C5_Witness ==
  /\ exPc = "done"
  /\ exLocals.aiResponse.json /\ exLocals.aiResponse.items = "described"
  /\ exLocals.aiResponse.customerName /\ exLocals.aiResponse.projectDescription
  /\ exOut.confidence = 95

-----------------------------------------------------------------------------
(* Claims about the mailbox pass *)

\* symmetric substring containment of a sender and a rule pattern
Matches(senderEmail, pattern) ==
  \/ includes(senderEmail, toLowerCase(pattern))
  \/ includes(toLowerCase(pattern), senderEmail)

ActiveBlacklisted(senderEmail) ==
  \E i \in 1..Len(rules) :
    rules[i].type = "blacklist" /\ rules[i].active /\ Matches(senderEmail, rules[i].pattern)

\* C3: after a pass that returned, in plain or pre-loaded mode, no stored
\* email has a senderEmail that matches an active blacklist pattern by
\* symmetric containment, WeTransfer senders and lookup failures included.
C3_BlacklistExcluded ==
  passResult = "returned" =>
    \A n \in 1..Len(emails) : ~ActiveBlacklisted(emails[n].senderEmail)

\* no message of the mailbox is routed to 'skip'
C6_NoneSkipped ==
  \A i \in 1..Len(mailbox) :
    LET email == [from |-> mailbox[i].from,
                  senderEmail |-> extractEmailAddress(mailbox[i].from)]
    IN  \/ isWeTransferEmail(email)
        \/ checkWhitelistStatus(email, passSettings, rules) # "skip"

\* C6: when a pass over N messages, none routed to 'skip', returns and exactly
\* message k threw while being parsed, processedCount is N-1, errors has the
\* one entry naming k, and every other message is stored.
C6_PartialFailure ==
  \A k \in 1..Len(mailbox) :
    (passResult = "returned" /\ threw = {k} /\ C6_NoneSkipped) =>
      /\ processedCount = Len(mailbox) - 1
      /\ errors = <<k>>
      /\ \A i \in (1..Len(mailbox)) \ {k} :
           \E n \in 1..Len(emails) : emails[n].msg = i

\* the first of MaxMsgs messages threw and the pass went on to store the rest
C6_Witness ==
  /\ passResult = "returned"
  /\ Len(mailbox) = MaxMsgs
  /\ threw = {1}
  /\ C6_NoneSkipped
  /\ errors = <<1>>
  /\ \E n \in 1..Len(emails) : emails[n].msg = MaxMsgs

\* C7: a pass that reaches its between-message point while the stop flag is
\* set takes no further message.
C7_StopObserved ==
  [][ (passPc = "loop" /\ shouldStop) => passPc' # "message" ]_vars

\* C8: once every stop request has scheduled its timer and every timer has
\* fired, both stop flags are false; a raised flag is always lowered again.
C8_StopFlagsClear ==
  /\ []((stopAwaiting = 0 /\ stopTimers = 0) => (~shouldStop /\ ~shouldStopParsing))
  /\ ((shouldStop \/ shouldStopParsing) ~> (~shouldStop /\ ~shouldStopParsing))

\* C28: while a stop request is still logging or has its reset timer pending,
\* the parsing stop flag that the force-parse loop reads is set.
C28_FlagHeldForEachRequest ==
  (stopAwaiting > 0 \/ stopTimers > 0) => shouldStopParsing

\* MaxStops stop requests were made, their timers fired, and a pass starts
C8_Witness ==
  /\ stopCount = MaxStops
  /\ stopAwaiting = 0
  /\ stopTimers = 0
  /\ ~shouldStop /\ ~shouldStopParsing
  /\ passPc = "idle"

\* C10: when a pass or a re-fetch has ended, whichever way, its INBOX lock is
\* not held and its IMAP session is not left connected.
C10_Released ==
  /\ passPc = "done" => (~lockHeld /\ session # "connected")
  /\ rfPc = "done" => (~rfLock /\ rfSession # "connected")

\* a pass failed inside the message loop and a re-fetch failed after it had
\* connected; both sessions were logged out
C10_Witness ==
  /\ passPc = "done" /\ passResult = "threw" /\ messageCount >= 1
  /\ session = "loggedOut" /\ ~lockHeld
  /\ rfPc = "done" /\ rfResult = "original"
  /\ rfSession = "loggedOut" /\ ~rfLock

\* the messages the pass has added to the data store
StoredMessages == { emails[n].msg : n \in 1..Len(emails) }

\* C19: a message for which the rule matcher answered 'skip' is not stored
\* and not handed to classifyEmail, and the step that handles it leaves the
\* data store and processedCount as they were.
C19_SkipNotPersisted ==
  /\ [](\A n \in 1..Len(routes) :
          routes[n] = "skip" => (n \notin StoredMessages /\ n \notin classifyCalls))
  /\ [][ (Len(routes') > Len(routes) /\ routes'[Len(routes')] = "skip")
           => (emails' = emails /\ processedCount' = processedCount) ]_vars

\* the first message was skipped and the second was classified and stored
C19_Witness ==
  /\ passResult = "returned"
  /\ Len(routes) = 2 /\ routes[1] = "skip" /\ routes[2] # "skip"
  /\ classifyCalls = {2}
  /\ StoredMessages = {2}
  /\ processedCount = 1

\* the messages of the pass for which the rule matcher answered 'skip'
SkippedCount == Cardinality({ n \in 1..Len(routes) : routes[n] = "skip" })

\* C26: when a pass returns, every message it iterated is counted exactly
\* once, as processed, as skipped for the blacklist or as an error, and
\* processedCount is the number of emails the pass added to the data store.
C26_PassAccounting ==
  passResult = "returned" =>
    /\ processedCount + SkippedCount + Len(errors) = messageCount
    /\ processedCount = Len(emails)

\* a returned pass that stored one message, skipped one or failed on one
C26_Witness ==
  /\ passResult = "returned"
  /\ messageCount = MaxMsgs
  /\ processedCount = 1
  /\ SkippedCount + Len(errors) = 1

-----------------------------------------------------------------------------
(* Claims about the rule matcher *)

MatchesType(senderEmail, type) ==
  \E i \in 1..Len(rules) :
    rules[i].type = type /\ Matches(senderEmail, rules[i].pattern)

\* C4: with every rule active, checkWhitelistStatus answers 'skip' for a
\* sender that matches a blacklist pattern (exactly or by containment, a
\* whitelist match notwithstanding), 'inbox' for one that matches whitelist
\* patterns only, and 'unsorted' for one that matches no pattern.
C4_RulePrecedence ==
  (rtResult # "none" /\ \A i \in 1..Len(rules) : rules[i].active) =>
    LET senderEmail == toLowerCase(rtEmail.senderEmail)
    IN  rtResult =
          IF MatchesType(senderEmail, "blacklist") THEN "skip"
          ELSE IF MatchesType(senderEmail, "whitelist") THEN "inbox"
          ELSE "unsorted"

\* the rules a user has left switched on, in stored order
ActiveRules(rs) == SelectSeq(rs, LAMBDA r : r.active)

\* C23: in either mode the answer of checkWhitelistStatus is the answer it
\* gives when the inactive rules are removed from the rule list.
C23_InactiveIgnored ==
  rtResult # "none" =>
    rtResult = checkWhitelistStatus(rtEmail,
                 IF rtOptimized THEN PreloadRules(ActiveRules(rules))
                                ELSE NoSettingsMaps,
                 ActiveRules(rules))

\* C25: with every rule active, the answer a call gives in its own mode is
\* the answer the other mode gives for the same sender and the same rules.
C25_ModesAgree ==
  (rtResult # "none" /\ \A i \in 1..Len(rules) : rules[i].active) =>
    rtResult = checkWhitelistStatus(rtEmail,
                 IF rtOptimized THEN NoSettingsMaps ELSE PreloadRules(rules),
                 rules)

-----------------------------------------------------------------------------
(* Claims about the job queue *)

RunningJobs == { j \in JobIds : jobs[j].status = "running" }

\* C1: at every instant at most one Job has status 'running', whatever the
\* interleaving of submissions with the await points of processJob.
C1_AtMostOneRunning == Cardinality(RunningJobs) <= 1

\* C2: a submission made while a Job is 'running' is rejected: it adds no Job
\* and leaves the running Job and the current-job slot as they were.
C2_RejectedWhileRunning ==
  [][ (RunningJobs # {} /\ \E type \in JobTypes : PostJobs(type))
        => UNCHANGED <<jobs, currentJob, jobIdCounter>> ]_vars

\* C9: every Job that processJob starts eventually ends 'completed', or
\* 'failed' with the error text recorded, and the step that ends processJob
\* leaves the current-job slot cleared.
C9_JobEnds ==
  /\ [](\A j \in DOMAIN jobs :
          jpc[j] \in {"finishing", "done"} =>
            \/ jobs[j].status = "completed"
            \/ jobs[j].status = "failed" /\ jobs[j].error \in PipelineErrors)
  /\ <>[](\A j \in DOMAIN jobs : jpc[j] \in {"none", "done"})
  /\ [][ \A j \in DOMAIN jobs :
           (jpc[j] # "done" /\ jpc'[j] = "done") => currentJob' = NoJob ]_vars

\* a job has failed with its error recorded and another has completed
C9_Witness ==
  \E j, k \in DOMAIN jobs :
    /\ jpc[j] = "done" /\ jobs[j].status = "failed" /\ jobs[j].error \in PipelineErrors
    /\ jpc[k] = "done" /\ jobs[k].status = "completed"
    /\ currentJob = NoJob

\* C29: every Job that createJob has placed in the table eventually leaves
\* status 'pending', whatever the interleaving of submissions.
C29_PendingLeaves ==
  \A j \in RunIds : (jobs[j].status = "pending") ~> (jobs[j].status # "pending")

\* a job submitted while another was still pending has started beside it
C29_Witness ==
  /\ jobIdCounter = MaxRunJobs
  /\ \A j \in RunIds : jobs[j].status = "running"

\* C30: while a Job is 'running' the current-job slot holds that job in its
\* latest state, and the step that ends a job clears the slot only when the
\* slot holds that job.
C30_SlotIsExecutingJob ==
  /\ [](\A j \in DOMAIN jobs : jobs[j].status = "running" => currentJob = jobs[j])
  /\ [][ \A j \in DOMAIN jobs :
           (JobFinally(j) /\ currentJob # NoJob /\ currentJob.id # j)
             => currentJob' = currentJob ]_vars

====
